---- MODULE Spec2Model ----
(***************************************************************************)
(* The route animator of apps/frontend/src/components/Map/Map.tsx (the     *)
(* first Map component of the file, lines 54-691) as hosted by the route   *)
(* editor page (routes/new/page.tsx), and the path builders of the file.   *)
(*                                                                         *)
(* The component is single-threaded: every action below is one handler,    *)
(* effect or callback run to completion (an async function runs up to its  *)
(* next await on a timer or a network response).  A handler is written as  *)
(* a function from the component's state to its next state, so that the    *)
(* calls it makes compose in the order of the code.                        *)
(*                                                                         *)
(* Specifications:                                                         *)
(*   Spec      the animator under the editor page                          *)
(*   SpecLive  runs left alone, with fair timers, frames and responses     *)
(*   SpecHost  the animator under any host of the Map component            *)
(*   SpecPath  the path builders as functions of their inputs              *)
(*   SpecSearch  a LocationSearch box of the editor page                   *)
(*   SpecEditor  saving a route: the editor page and routes.create         *)
(*   SpecFn    calculateDuration and formatDuration as functions           *)
(*   SpecScene   the static markers of updateMapWithSegments               *)
(*   SpecReveal  the reveal loop of one segment, frame by frame            *)
(*   SpecOverlay the route-<i> overlays of the later Map components        *)
(*   SpecTrace   traceRequested and onTraceComplete, render by render      *)
(*   SpecButton  the play/pause button and isAnimating, render by render    *)
(*   SpecForm    the add-segment form: fromLocation and the segment list    *)
(*   SpecStore   RoutesService.calculateSegments over the stored routes     *)
(***************************************************************************)
EXTENDS Integers, Sequences, FiniteSets, TLC

VARIABLES
    segments,          \* prop: the segment list handed to the Map
    mounted,           \* the component is mounted
    mapRef,            \* mapRef.current: the identity of the current map instance
    mapLoaded,         \* the current map has fired 'load' (style loaded)
    mapRemoved,        \* map.remove() was called on mapRef.current (unmount)
    source,            \* the 'live-route' source of the current map
    layers,            \* the live-route layers of the current map
    vehicleMarkerRef,  \* vehicleMarkerRef.current
    markersOnMap,      \* vehicle markers attached to the current map
    animationRef,      \* animationRef.current: the run that requested a frame last
    isAnimating,       \* React state
    currentSegment,    \* React state
    routeProgress,     \* React state
    totalProgressRef,  \* totalProgressRef.current
    runs,              \* the invocation chains of animateRoute and what each waits for
    starts,            \* number of animateRoute(0) chains started so far
    toggles,           \* number of darkMode changes so far
    completions,       \* number of onTraceComplete calls so far
    lastComplete,      \* the run whose completion branch ran last
    uncaught,          \* an exception escaped a callback or the async function
    lastEvent,         \* the handler that ran last
    mapFaults,         \* the map operations issued so far that broke the map's rules
    pb,                \* a call of a path builder: its inputs and its outcome
    sb,                \* a LocationSearch box of the editor page
    ed,                \* the route editor page and the create-route procedure
    fn,                \* a call of calculateDuration or formatDuration
    sc,                \* the static markers of the waypoints
    rv,                \* the reveal loop of one segment
    ov,                \* the static route overlays of the later Map components
    tr,                \* the Trace Route request between the page and the Map
    bt,                \* the play/pause button of the first Map component
    fm,                \* the add-segment form of the page with Trace Route
    db                 \* the stored routes, waypoints and segments, and the calls of calculateSegments

\* the variables of the animator
animVars == <<segments, mounted, mapRef, mapLoaded, mapRemoved, source, layers,
              vehicleMarkerRef, markersOnMap, animationRef, isAnimating,
              currentSegment, routeProgress, totalProgressRef, runs, starts,
              toggles, completions, lastComplete, uncaught, lastEvent, mapFaults>>

\* the variables of the other parts
sideVars == <<pb, sb, ed, fn, sc, rv, ov, tr, bt, fm, db>>

vars == <<animVars, sideVars>>

----------------------------------------------------------------------------
(* Bounds of the model *)

\* animateRoute(0) chains started by the play button or by Trace Route
MaxStarts == 2
\* segments of the longest route the editor hands over
MaxSegs == 2
\* coordinates in the longest geometry a directions response carries
MaxCoords == 2
\* darkMode changes
MaxToggles == 1
\* frames that advance the cursor in a flight segment (the code's 8000 ms at 60 fps, scaled)
FlightFrames == 3
\* frames that advance the cursor in a ground segment (the code's 6000 ms at 60 fps, scaled)
GroundFrames == 2

----------------------------------------------------------------------------
(* Segments, distances and durations *)

\* create3DCurvedPath: const steps = 200
steps == 200

\* the speeds table of calculateDuration, km/h
speeds == [flight |-> 800, drive |-> 80, train |-> 120, walk |-> 5]

\* The legs the editor appends to a route, in this order: from/to are location ids.
RouteTemplate ==
    << [from |-> "A", to |-> "B", mode |-> "drive"],
       [from |-> "B", to |-> "C", mode |-> "flight"],
       [from |-> "C", to |-> "D", mode |-> "walk"],
       [from |-> "D", to |-> "A", mode |-> "train"] >>

\* calculateDistance (haversine) on the locations of the template, in km
calculateDistance(from, to) ==
    CASE {from, to} = {"A", "B"} -> 40
      [] {from, to} = {"B", "C"} -> 1600
      [] {from, to} = {"C", "D"} -> 10
      [] {from, to} = {"D", "A"} -> 240
      [] from = to -> 0
      [] OTHER -> 100

\* minutes are counted in units of 1/DurationScale minute: 60 / speed is a
\* multiple of 1/40 for every speed of the table
DurationScale == 40

\* a duration in hours
calculateDurationHours(distance, mode) == (distance * DurationScale) \div speeds[mode]

\* calculateDuration: (distance / speeds[mode]) * 60, in minutes
calculateDuration(distance, mode) == (distance * 60 * DurationScale) \div speeds[mode]

\* a formatDuration that leaves the hours in the minutes
formatDurationAllMinutes(minutes) ==
    ToString(minutes \div (60 * DurationScale)) \o "h "
        \o ToString((minutes * 2 + DurationScale) \div (2 * DurationScale)) \o "m"

\* formatDuration: Math.floor(minutes / 60) hours, Math.round(minutes % 60) minutes
formatDuration(minutes) ==
    LET hours == minutes \div (60 * DurationScale)
        mins == ((minutes % (60 * DurationScale)) * 2 + DurationScale) \div (2 * DurationScale)
    IN  ToString(hours) \o "h " \o ToString(mins) \o "m"

\* distances in whole km, up to MaxKm and the 800 km of an hour's flight
MaxKm == 12
Distances == (0..MaxKm) \cup {800}

\* durations in whole minutes up to MaxMinutes, and some that are not whole
MaxMinutes == 140
Durations ==
    {m * DurationScale : m \in 0..MaxMinutes}
        \cup {20, 59 * DurationScale + 24, 3 * DurationScale + 10,
              calculateDuration(119, "train")}

\* no call made yet
FnIdle == [op |-> "none", distance |-> 0, mode |-> "flight", minutes |-> 0,
           out |-> 0, text |-> ""]

\* the inputs of a call
FnInputs ==
    {[FnIdle EXCEPT !.distance = d, !.mode = m] :
         d \in Distances, m \in {"flight", "drive", "train", "walk"}}
    \cup {[FnIdle EXCEPT !.minutes = x] : x \in Durations}

\* the lists the editor reaches by adding the template's legs and removing the last one
SegLists == { SubSeq(RouteTemplate, 1, n) : n \in 0..MaxSegs }

----------------------------------------------------------------------------
(* Path building: create3DCurvedPath, getGroundRoute and buildPath of the   *)
(* first Map component, and the path builders of the later components of    *)
(* the file.  Coordinates are whole degrees; a point of a path is           *)
(* <<lng, lat, altitude>> (or <<lng, lat>>) with lng and lat in units of    *)
(* 1/Scale degree, so that every sample of the curve is an integer.         *)

Modes == {"flight", "drive", "train", "walk"}

\* the denominators of t * t (steps * steps), of the midpoint (2) and of distance * 0.2 (5)
Scale == 10 * steps * steps

\* a coordinate pair of the segment, in the units of a path
Deg(c) == <<Scale * c[1], Scale * c[2]>>

\* from.coordinates / to.coordinates: [lng, lat] pairs whose distances are whole degrees
Places == { <<0, 0>>, <<3, 4>>, <<-6, -8>>, <<60, 80>> }

\* Math.sqrt, rounded down (exact on Places)
Sqrt(n) == CHOOSE r \in 0..510 : r * r <= n /\ n < (r + 1) * (r + 1)

Min(a, b) == IF a < b THEN a ELSE b

\* a loop that stops one sample short
LoopRangeExclusive(n) == 0..(n - 1)

\* for (let i = 0; i <= steps; i++)
LoopRange(n) == 0..n

\* the quadratic Bezier sample (1-t)^2 * a + 2(1-t)t * control + t^2 * b at t = i / steps,
\* with the control point given ten-fold
Bezier(a, control10, b, i) ==
    10 * (steps - i) * (steps - i) * a + 2 * (steps - i) * i * control10 + 10 * i * i * b

\* create3DCurvedPath
create3DCurvedPath(start, end) ==
    LET dx == end[1] - start[1]
        dy == end[2] - start[2]
        distance == Sqrt(dx * dx + dy * dy)
        \* maxAltitude / (steps * steps), with maxAltitude = min(distance * 80000, 800000)
        maxAltitude == Min(distance * 2, 20)
        midLng10 == 5 * (start[1] + end[1])
        \* curvature = min(distance * 0.2, 20); controlLat = midLat + curvature
        curvature10 == 2 * Min(distance, 100)
        controlLat10 == 5 * (start[2] + end[2]) + curvature10
        point(i) == << Bezier(start[1], midLng10, end[1], i),
                       Bezier(start[2], controlLat10, end[2], i),
                       maxAltitude * 4 * i * (steps - i) >>
        n == Cardinality(LoopRange(steps))
    IN  [k \in 1..n |-> point(k - 1)]

\* What the directions request comes back with:
\*   network   fetch rejects
\*   json      response.json() rejects (the body is not JSON)
\*   noroutes  the body has no routes field (an HTTP error body)
\*   empty     routes is the empty list
\*   nogeom    routes[0] has no geometry
\*   ok        routes[0].geometry.coordinates has n coordinates
Failures == {"network", "json", "noroutes", "empty", "nogeom"}
Lookups ==
    {[kind |-> f, n |-> 0] : f \in Failures} \cup {[kind |-> "ok", n |-> n] : n \in 0..MaxCoords}

\* the coordinates of a geometry with n coordinates that leads from start to end
Geometry(start, end, n) ==
    [i \in 1..n |-> IF i = 1 THEN Deg(start)
                    ELSE IF i = n THEN Deg(end)
                    ELSE <<Scale * start[1], Scale * end[2]>>]

\* getGroundRoute: mode === 'drive' ? 'driving' : mode === 'train' ? 'driving' : 'walking'
profile(mode) ==
    IF mode = "drive" THEN "driving" ELSE IF mode = "train" THEN "driving" ELSE "walking"

\* the outcome of a call: the directions requests it made, the path it returned,
\* whether it threw instead, whether it logged an error
Outcome(requests, result, raised, logged) ==
    [requests |-> requests, result |-> result, raised |-> raised, logged |-> logged]

Request(p, start, end) == [profile |-> p, start |-> start, end |-> end]

\* getGroundRoute (first component)
getGroundRoute(start, end, mode, lookup) ==
    LET request == Request(profile(mode), start, end)
        elevation == IF mode = "train" THEN 50 ELSE IF mode = "drive" THEN 30 ELSE 20
        coordinates == Geometry(start, end, lookup.n)
        fallback == << <<Scale * start[1], Scale * start[2], 20>>,
                       <<Scale * end[1], Scale * end[2], 20>> >>
    IN  IF lookup.kind \in {"network", "json", "nogeom"}
        THEN Outcome(<<request>>, fallback, FALSE, TRUE)     \* thrown inside try, caught
        ELSE IF lookup.kind = "ok"                            \* data.routes && data.routes[0]
        THEN Outcome(<<request>>,
                     [i \in 1..lookup.n |->
                         <<coordinates[i][1], coordinates[i][2], elevation>>],
                     FALSE, FALSE)
        ELSE Outcome(<<request>>, fallback, FALSE, FALSE)

\* buildPath (first component)
buildPath(from, to, mode, lookup) ==
    IF mode = "flight"
    THEN Outcome(<< >>, create3DCurvedPath(from, to), FALSE, FALSE)
    ELSE getGroundRoute(from, to, mode, lookup)

\* createCurvedPath (second component): the same curve without altitude
createCurvedPath(start, end) ==
    LET dx == end[1] - start[1]
        dy == end[2] - start[2]
        distance == Sqrt(dx * dx + dy * dy)
        midLng10 == 5 * (start[1] + end[1])
        controlLat10 == 5 * (start[2] + end[2]) + 2 * Min(distance, 100)
    IN  [k \in 1..(steps + 1) |->
            << Bezier(start[1], midLng10, end[1], k - 1),
               Bezier(start[2], controlLat10, end[2], k - 1) >>]

\* getGroundRoute (second component): the mode itself is the profile
getGroundRouteEarlier(start, end, mode, lookup) ==
    IF lookup.kind = "ok"
    THEN Outcome(<<Request(mode, start, end)>>, Geometry(start, end, lookup.n), FALSE, FALSE)
    ELSE Outcome(<<Request(mode, start, end)>>, <<Deg(start), Deg(end)>>, FALSE, TRUE)

\* buildPath (second component, progressive reveal): no try around the request
buildPathReveal(from, to, mode, lookup) ==
    IF mode = "flight"
    THEN LET midLng10 == 5 * (from[1] + to[1])
             midLat10 == 5 * (from[2] + to[2]) + 50       \* midLat + 5
         IN  Outcome(<< >>,
                     [k \in 1..(steps + 1) |->
                         << Bezier(from[1], midLng10, to[1], k - 1),
                            Bezier(from[2], midLat10, to[2], k - 1) >>],
                     FALSE, FALSE)
    ELSE IF lookup.kind = "ok"
    THEN Outcome(<<Request(profile(mode), from, to)>>, Geometry(from, to, lookup.n),
                 FALSE, FALSE)
    ELSE Outcome(<<Request(profile(mode), from, to)>>, << >>, TRUE, FALSE)

\* the precomputed-paths effect (second component), for one segment
precomputePath(from, to, mode, lookup) ==
    IF mode = "flight"
    THEN Outcome(<< >>, createCurvedPath(from, to), FALSE, FALSE)
    ELSE LET p == IF mode = "drive" THEN "driving" ELSE mode
         IN  IF lookup.kind = "ok"
             THEN Outcome(<<Request(p, from, to)>>, Geometry(from, to, lookup.n),
                          FALSE, FALSE)
             ELSE Outcome(<<Request(p, from, to)>>, <<Deg(from), Deg(to)>>, FALSE, FALSE)

\* no call made yet on the inputs
NoOutcome == Outcome(<< >>, << >>, FALSE, FALSE)

\* the path builder at rest in the animator's specification
PbIdle == [op |-> "none", from |-> <<0, 0>>, to |-> <<0, 0>>, mode |-> "flight",
           lookup |-> [kind |-> "ok", n |-> 0], out |-> NoOutcome]

\* the inputs of a call
PbInputs ==
    { [op |-> "none", from |-> f, to |-> t, mode |-> m, lookup |-> l, out |-> NoOutcome] :
          f \in Places, t \in Places, m \in Modes, l \in Lookups }

----------------------------------------------------------------------------
(* Values of the search box *)

\* keystrokes in the box
MaxTyped == 4

\* what the input can hold
Queries == {"", "a", "ab", "abc"}

\* the box before it is mounted
SbIdle == [search |-> "", timers |-> {}, requests |-> << >>, inflight |-> {},
           shown |-> 0, newest |-> 0, isSearching |-> FALSE,
           typed |-> 0, windows |-> 0, fired |-> 0, ev |-> "none"]

----------------------------------------------------------------------------
(* Values of the map scene *)

\* times the segment list changes, and times dark mode is toggled
MaxChanges == 2
MaxSceneToggles == 1

\* a location is known by its id; a segment leads from one to another
LocationIds == {"A", "B", "C"}
ScenePairs ==
    { [from |-> "A", to |-> "B"], [from |-> "B", to |-> "C"],
      [from |-> "B", to |-> "A"], [from |-> "A", to |-> "A"] }
SceneLists ==
    {<< >>} \cup {<<p>> : p \in ScenePairs} \cup {<<p, q>> : p, q \in ScenePairs}

\* the marker colours: start, end, any other
StartColor == "#10b981"
EndColor == "#ef4444"
OtherColor == "#3b82f6"

\* the view before it is mounted. gen counts the maps created, loaded tells
\* that the map has fired load, styleLoaded is what isStyleLoaded() answers
\* during the present event, onLoad is the segment list seen by the map's load
\* handler, queue the segment lists of the updateMapWithSegments closures
\* registered with once('load'), ran tells that the present event has placed
\* the markers
ScIdle == [mounted |-> FALSE, segments |-> << >>, gen |-> 0, loaded |-> FALSE,
           styleLoaded |-> FALSE, onLoad |-> << >>, queue |-> << >>,
           markersRef |-> << >>, ran |-> FALSE,
           changes |-> 0, toggles |-> 0, ev |-> "none"]

----------------------------------------------------------------------------
(* Values of the reveal loop *)

\* const fps = 60
fps == 60

\* animationDuration = seg.mode === 'flight' ? 8000 : 6000
animationDuration(mode) == IF mode = "flight" THEN 8000 ELSE 6000

\* totalFrames = animationDuration / frameTime, with frameTime = 1000 / fps
totalFrames(mode) == (animationDuration(mode) * fps) \div 1000

\* paths of 1..MaxPathLen points, and the steps + 1 points of a flight curve
MaxPathLen == 3
PathLens == (1..MaxPathLen) \cup {steps + 1}

\* the loop before a path is known.  A point of a line is the place it has
\* along the path, in units of 1/unit of the way from one point of the path to
\* the next; data is the coordinate list of the live-route source, drawnPath
\* the list the loop of the first component appends to.
\* interpolationProgress and t are kept in units of 1/unit as well
RvIdle == [variant |-> "none", mode |-> "flight", n |-> 1, unit |-> 1,
           frames |-> 0, drawnPath |-> << >>, data |-> << >>, status |-> "idle",
           interpolationProgress |-> 0, currentPathIndex |-> 0, t |-> 0]

\* the source has been added with no coordinates and the camera has settled
RvInputs ==
    {[RvIdle EXCEPT !.variant = "first", !.mode = m, !.n = n,
                    !.unit = totalFrames(m), !.drawnPath = <<0>>,
                    !.status = "frame"] :
         m \in {"flight", "drive"}, n \in PathLens}
    \cup {[RvIdle EXCEPT !.variant = "reveal", !.n = n, !.status = "frame"] :
              n \in PathLens}

----------------------------------------------------------------------------
(* Values of the route overlays *)

\* segments of a list, and play clicks
MaxOverlaySegs == 3
MaxPlays == 2

\* no animation is under way
NoSegment == -1

\* a loaded map without overlays.  sources and layers hold the i of the
\* sources and layers named route-<i>, anim is the segment animateRoute is at
OvIdle == [variant |-> "none", n |-> 0, sources |-> {}, layers |-> {},
           faults |-> {}, anim |-> NoSegment, plays |-> 0, ev |-> "none"]

OvInputs ==
    {[OvIdle EXCEPT !.variant = v, !.n = n] :
         v \in {"precomputed", "camera"}, n \in 1..MaxOverlaySegs}

----------------------------------------------------------------------------
(* Values of the trace request *)

\* clicks on Trace Route, edits of the segment list, other renders of the
\* page, segments of a list
MaxTraceClicks == 2
MaxEdits == 2
MaxRenders == 1
MaxTraceSegs == 2

\* a state update that has not been rendered yet
NoUpdate == [set |-> FALSE, val |-> 0]
Update(v) == [set |-> TRUE, val |-> v]

\* the page and the Map after the first render.  Booleans of the state are
\* kept as 0 and 1.  qTrace, qAnimating and qSegment are the updates queued by
\* setTraceRequested, setIsAnimating and setCurrentSegment; runs holds, for
\* every chain of animateRoute, the length of its segment list and the
\* segment it is at
TrIdle == [variant |-> "none", n |-> 0, traceRequested |-> 0, isAnimating |-> 0,
           currentSegment |-> 0, qTrace |-> NoUpdate, qAnimating |-> NoUpdate,
           qSegment |-> NoUpdate, runs |-> << >>, signals |-> 0,
           clicks |-> 0, edits |-> 0, renders |-> 0, ev |-> "none"]

TrInputs ==
    {[TrIdle EXCEPT !.variant = v, !.n = n] :
         v \in {"first", "reveal"}, n \in 0..MaxTraceSegs}

----------------------------------------------------------------------------
(* Values of the play button *)

\* clicks on the button, changes of the segment list or of darkMode, segments
\* of a list
MaxButtonClicks == 3
MaxButtonChanges == 2
MaxButtonSegs == 2

\* button.innerHTML (the text after the leading glyph)
PlayLabel == "Play Route Animation"
PauseLabel == "Pause"

\* the component before it is mounted.  present: the button is in the map's
\* container; seen: the isAnimating its onclick closed over; running: the
\* chains of animateRoute that have not reached their completion branch
BtIdle == [mounted |-> FALSE, n |-> 0, darkMode |-> FALSE, isAnimating |-> FALSE,
           present |-> FALSE, label |-> "", seen |-> FALSE, running |-> 0,
           clicks |-> 0, changes |-> 0, ev |-> "none"]

----------------------------------------------------------------------------
(* Values of the add-segment form *)

\* segments of the list
MaxFormSegs == 3

\* fromLocation and toLocation hold a location or null; the locations the
\* search boxes offer are named by their ids
NoLocation == "null"
FormModes == {"flight", "walk"}

\* the page before its first render
FmIdle == [segments |-> << >>, isAddingSegment |-> FALSE,
           fromLocation |-> NoLocation, toLocation |-> NoLocation,
           selectedMode |-> "flight", ev |-> "none"]

----------------------------------------------------------------------------
(* Values of the route store *)

\* routes created, waypoints of a create input, calls of calculateSegments
MaxRoutes == 2
MaxWaypoints == 3
MaxCalls == 3

\* a call of calculateSegments that has not been made
NoCalc == [status |-> "unused", routeId |-> 0, segments |-> << >>, before |-> {},
           result |-> 0]

\* the empty database.  Rows of Route are their ids, rows of Waypoint and
\* Segment carry the id the database gave them
DbIdle == [route |-> {}, waypoint |-> {}, segment |-> {}, nextRoute |-> 1,
           nextRow |-> 1, calls |-> [c \in 1..MaxCalls |-> NoCalc], ev |-> "none"]

----------------------------------------------------------------------------
(* Values of the route editor *)

\* presses of Save Route
MaxSaves == 1

\* the locations the search boxes offer: coordinates are [lng, lat]
EdLocations ==
    { [id |-> "A", name |-> "Paris", coordinates |-> <<2, 49>>],
      [id |-> "B", name |-> "Rome", coordinates |-> <<12, 42>>],
      [id |-> "C", name |-> "Oslo", coordinates |-> <<11, 60>>] }

\* what the route name input can hold
RouteNames == {"", "Trip"}

NoInput == [name |-> "", waypoints |-> << >>]
NoCall == [input |-> NoInput, outcome |-> "none"]

\* the editor before the user touches it
EdIdle == [routeName |-> "", segments |-> << >>, saves |-> 0,
           queue |-> << >>, call |-> NoCall, navigated |-> FALSE, ev |-> "init"]

----------------------------------------------------------------------------
(* Values *)

\* mapRef.current before the map effect has created the map: null
NoMap == -1
NoMarker == [attached |-> FALSE, at |-> << >>, none |-> TRUE]
NoSource == [present |-> FALSE, coords |-> 0]
NoProgress == [mode |-> "none"]
LiveLayers == {"live-route-shadow", "live-route"}

RunIds == 1..MaxStarts
Waiting == {"path", "settle", "frame", "pause"}
UnusedRun == [status |-> "unused", segs |-> << >>, segIndex |-> 0, pathLen |-> 0,
              frames |-> 0, started |-> << >>, timers |-> 0, resolved |-> 0]

\* what a directions request can come back with: a failure of any kind, or a
\* route whose geometry has so many coordinates
Responses ==
    {[ok |-> FALSE, coords |-> 0]} \cup {[ok |-> TRUE, coords |-> n] : n \in 0..MaxCoords}

\* The state of the component as one record
S == [segments |-> segments, mounted |-> mounted, mapRef |-> mapRef,
      mapLoaded |-> mapLoaded, mapRemoved |-> mapRemoved, source |-> source,
      layers |-> layers, vehicleMarkerRef |-> vehicleMarkerRef,
      markersOnMap |-> markersOnMap, animationRef |-> animationRef,
      isAnimating |-> isAnimating, currentSegment |-> currentSegment,
      routeProgress |-> routeProgress, totalProgressRef |-> totalProgressRef,
      runs |-> runs, starts |-> starts, toggles |-> toggles,
      completions |-> completions, lastComplete |-> lastComplete,
      uncaught |-> uncaught, lastEvent |-> lastEvent, mapFaults |-> mapFaults]

Commit(w) ==
    /\ segments' = w.segments
    /\ mounted' = w.mounted
    /\ mapRef' = w.mapRef
    /\ mapLoaded' = w.mapLoaded
    /\ mapRemoved' = w.mapRemoved
    /\ source' = w.source
    /\ layers' = w.layers
    /\ vehicleMarkerRef' = w.vehicleMarkerRef
    /\ markersOnMap' = w.markersOnMap
    /\ animationRef' = w.animationRef
    /\ isAnimating' = w.isAnimating
    /\ currentSegment' = w.currentSegment
    /\ routeProgress' = w.routeProgress
    /\ totalProgressRef' = w.totalProgressRef
    /\ runs' = w.runs
    /\ starts' = w.starts
    /\ toggles' = w.toggles
    /\ completions' = w.completions
    /\ lastComplete' = w.lastComplete
    /\ uncaught' = w.uncaught
    /\ lastEvent' = w.lastEvent
    /\ mapFaults' = w.mapFaults
    /\ UNCHANGED sideVars

Event(w, e) == [w EXCEPT !.lastEvent = e]

----------------------------------------------------------------------------
(* Steps of the code *)

\* a React state setter: ignored once the component is unmounted
SetState(w, field, value) ==
    IF w.mounted THEN [w EXCEPT ![field] = value] ELSE w

\* an exception leaves the callback or the async function of run t
Throw(w, t) ==
    [w EXCEPT !.runs[t].status = "dead", !.uncaught = TRUE]

\* vehicleMarkerRef.current.remove()
MarkerRemove(w) ==
    IF w.vehicleMarkerRef.attached
    THEN [w EXCEPT !.vehicleMarkerRef.attached = FALSE,
                   !.markersOnMap = @ - 1]
    ELSE w

\* cancelAnimationFrame(animationRef.current), guarded by animationRef.current
CancelFrame(w) ==
    IF w.animationRef # 0 /\ w.runs[w.animationRef].status = "frame"
    THEN [w EXCEPT !.runs[w.animationRef].status = "cancelled"]
    ELSE w

\* a map operation that breaks a rule of the map:
\*   beforeLoad          addSource before the style is loaded (the map throws)
\*   nameInUse           addSource or addLayer under a name that exists (addSource throws,
\*                       addLayer reports an error and adds nothing)
\*   layerWithoutSource  addLayer for a source that does not exist (adds nothing)
\*   sourceWithLayers    removeSource while a layer uses the source (removes nothing)
Fault(w, f) == [w EXCEPT !.mapFaults = @ \cup {f}]

\* if (getLayer(id)) removeLayer(id)
RemoveLayer(w, id) ==
    IF id \in w.layers THEN [w EXCEPT !.layers = @ \ {id}] ELSE w

\* removeSource('live-route')
RemoveSource(w) ==
    IF w.layers # {} THEN Fault(w, "sourceWithLayers")
    ELSE [w EXCEPT !.source = NoSource]

\* addSource('live-route', ...) throws
AddSourceThrows(w) == ~w.mapLoaded \/ w.source.present

\* addSource('live-route', ...)
AddSource(w) ==
    IF ~w.mapLoaded THEN Fault(w, "beforeLoad")
    ELSE IF w.source.present THEN Fault(w, "nameInUse")
    ELSE [w EXCEPT !.source = [present |-> TRUE, coords |-> 0]]

\* addLayer({id, source: 'live-route', ...})
AddLayer(w, id) ==
    IF ~w.source.present THEN Fault(w, "layerWithoutSource")
    ELSE IF id \in w.layers THEN Fault(w, "nameInUse")
    ELSE [w EXCEPT !.layers = @ \cup {id}]

\* a clearing that removes the source before its layers
ClearLiveRouteSourceFirst(w) ==
    LET w1 == IF w.source.present THEN RemoveSource(w) ELSE w
    IN  RemoveLayer(RemoveLayer(w1, "live-route-shadow"), "live-route")

\* the play button's "Clear existing routes"
ClearLiveRoute(w) ==
    IF w.mapRemoved THEN w
    ELSE LET w1 == RemoveLayer(RemoveLayer(w, "live-route-shadow"), "live-route")
         IN  IF w1.source.present THEN RemoveSource(w1) ELSE w1

\* an animator that adds the source without looking for an existing one
RemoveExistingNothing(w) == w

\* animateRoute: if (getSource(srcId)) { remove the layers first, then the source }
RemoveExisting(w) ==
    IF w.source.present
    THEN RemoveSource(RemoveLayer(RemoveLayer(w, "live-route-shadow"), "live-route"))
    ELSE w

\* totalFrames = animationDuration / frameTime
TotalFrames(mode) == IF mode = "flight" THEN FlightFrames ELSE GroundFrames

\* animateRoute, from `const path = await buildPath(...)` on: the path has len points
PathResolved(w, t, len) ==
    LET run == w.runs[t]
        seg == run.segs[run.segIndex + 1]
        distance == calculateDistance(seg.from, seg.to)
        duration == calculateDuration(distance, seg.mode)
        \* const path = await buildPath(...): one more path resolved
        w1 == [w EXCEPT !.totalProgressRef =
                   [distance |-> @.distance + distance,
                    duration |-> @.duration + duration],
                        !.runs[t].resolved = @ + 1]
        w2 == SetState(w1, "routeProgress",
                   [mode |-> seg.mode, distance |-> distance, duration |-> duration,
                    num |-> (run.segIndex + 1) * 100, den |-> Len(run.segs)])
        \* getSource: remove the layers, then the source
        w3 == RemoveExisting(w2)
        \* addSource, addLayer x 2
        w4 == AddLayer(AddLayer(AddSource(w3), "live-route-shadow"), "live-route")
        \* if (vehicleMarkerRef.current) vehicleMarkerRef.current.remove()
        w5 == MarkerRemove(w4)
        \* new Marker().setLngLat(path[0]).addTo(map); fitBounds; then the settle wait
        w6 == [w5 EXCEPT !.vehicleMarkerRef =
                             [attached |-> TRUE, at |-> <<t, run.segIndex, 0>>, none |-> FALSE],
                         !.markersOnMap = @ + 1,
                         !.runs[t].pathLen = len,
                         !.runs[t].status = "settle"]
    IN  IF w2.mapRemoved THEN Throw(w2, t)          \* getSource on a removed map
        ELSE IF AddSourceThrows(w3)                 \* before the style is loaded, or name in use
             THEN Throw(AddSource(w3), t)
        ELSE IF len = 0 THEN Throw(w5, t)           \* path[0][0] of an empty path
        ELSE w6

\* a continuation that skips a segment
NextSegIndexSkip(segIndex) == segIndex + 2

\* setTimeout(() => animateRoute(segIndex + 1), 500)
NextSegIndex(segIndex) == segIndex + 1

\* a completion branch that leaves the vehicle marker in place
CompleteRouteKeepMarker(w, t, segIndex) ==
    [SetState(w, "isAnimating", FALSE) EXCEPT
         !.completions = @ + 1,
         !.lastComplete = t,
         !.runs[t].segIndex = segIndex,
         !.runs[t].status = "done",
         !.lastEvent = "complete"]

\* animateRoute: the branch taken when segIndex is past the last segment
CompleteRoute(w, t, segIndex) ==
    LET w1 == SetState(w, "isAnimating", FALSE)
        w2 == IF w1.vehicleMarkerRef.none THEN w1
              ELSE [MarkerRemove(w1) EXCEPT !.vehicleMarkerRef = NoMarker]
    IN  [w2 EXCEPT !.completions = @ + 1,
                   !.lastComplete = t,
                   !.runs[t].segIndex = segIndex,
                   !.runs[t].status = "done",
                   !.lastEvent = "complete"]

\* a guard that does not look at mapRef.current
NothingToAnimateListOnly(w, t, segIndex) ==
    segIndex >= Len(w.runs[t].segs)

\* animateRoute: !mapRef.current || !segments || segIndex >= segments.length
NothingToAnimate(w, t, segIndex) ==
    w.mapRef = NoMap \/ segIndex >= Len(w.runs[t].segs)

\* animateRoute(segIndex) of run t, up to its first wait
animateRoute(w, t, segIndex) ==
    LET run == w.runs[t]
    IN  IF NothingToAnimate(w, t, segIndex)
        THEN CompleteRoute(w, t, segIndex)
        ELSE LET w1 == SetState(SetState(w, "isAnimating", TRUE),
                                "currentSegment", segIndex)
                 w2 == [w1 EXCEPT !.runs[t].segIndex = segIndex,
                                  !.runs[t].started = Append(@, segIndex),
                                  !.runs[t].frames = 0,
                                  !.runs[t].status = "path"]
             IN  IF run.segs[segIndex + 1].mode = "flight"
                 THEN PathResolved(w2, t, steps + 1)  \* create3DCurvedPath: no wait
                 ELSE w2                              \* getGroundRoute: fetch in flight

\* a new chain of animateRoute over the segment list of the current render
NewRun(w) ==
    [w EXCEPT !.starts = @ + 1,
              !.runs[w.starts + 1] = [UnusedRun EXCEPT !.segs = w.segments]]

----------------------------------------------------------------------------
(* Handlers *)

\* a play branch that keeps the totals and the readout of the run before
PlayHandlerKeepTotals(w) ==
    LET w3 == SetState(ClearLiveRoute(w), "isAnimating", TRUE)
        w4 == NewRun(Event(w3, "play"))
    IN  animateRoute(w4, w4.starts, 0)

\* button.onclick, !isAnimating branch
PlayHandler(w) ==
    LET w1 == ClearLiveRoute(w)
        w2 == [w1 EXCEPT !.totalProgressRef = [distance |-> 0, duration |-> 0]]
        w3 == SetState(SetState(w2, "routeProgress", NoProgress), "isAnimating", TRUE)
        w4 == NewRun(Event(w3, "play"))
    IN  animateRoute(w4, w4.starts, 0)

\* button.onclick, isAnimating branch
StopHandler(w) ==
    CancelFrame(SetState(Event(w, "stop"), "isAnimating", FALSE))

\* useEffect on traceRequested: animateRoute(0)
TraceHandler(w) ==
    LET w1 == NewRun(Event(w, "trace"))
    IN  animateRoute(w1, w1.starts, 0)

\* getGroundRoute's result: the geometry's coordinates, or [start, end]
GroundPathLen(resp) == IF resp.ok THEN resp.coords ELSE 2

\* animateStep on a frame in which deltaTime >= frameTime
\* a test that takes the first frame for the end of the path
ReachedEndAtOnce(k, pathLen, mode) == TRUE

\* interpolationProgress >= path.length - 1, with
\* interpolationProgress = k * (path.length - 1) / totalFrames
ReachedEnd(k, pathLen, mode) == k * (pathLen - 1) >= (pathLen - 1) * TotalFrames(mode)

AnimateStep(w, t) ==
    LET run == w.runs[t]
        seg == run.segs[run.segIndex + 1]
        k == run.frames + 1
        complete == ReachedEnd(k, run.pathLen, seg.mode)
        gone == w.mapRemoved \/ ~w.source.present
        wk == [w EXCEPT !.runs[t].frames = k]
    IN  IF gone THEN Throw(Event(wk, "frame"), t)
        ELSE IF complete
        THEN [wk EXCEPT !.source.coords = run.pathLen,
                        !.runs[t].status = "pause",
                        !.runs[t].timers = @ + 1,
                        !.lastEvent = "frame"]
        ELSE [wk EXCEPT !.source.coords = k + 1,
                        !.vehicleMarkerRef =
                            IF @.none THEN @ ELSE [@ EXCEPT !.at = <<t, run.segIndex, k>>],
                        !.animationRef = t,
                        !.lastEvent = "frame"]

----------------------------------------------------------------------------
(* Actions *)

InitAnimator ==
    /\ segments \in SegLists
    /\ mounted = TRUE
    /\ mapRef = 0
    /\ mapLoaded = FALSE
    /\ mapRemoved = FALSE
    /\ source = NoSource
    /\ layers = {}
    /\ vehicleMarkerRef = NoMarker
    /\ markersOnMap = 0
    /\ animationRef = 0
    /\ isAnimating = FALSE
    /\ currentSegment = 0
    /\ routeProgress = NoProgress
    /\ totalProgressRef = [distance |-> 0, duration |-> 0]
    /\ runs = [t \in RunIds |-> UnusedRun]
    /\ starts = 0
    /\ toggles = 0
    /\ completions = 0
    /\ lastComplete = 0
    /\ uncaught = FALSE
    /\ lastEvent = "init"
    /\ mapFaults = {}

Init ==
    /\ InitAnimator
    /\ pb = PbIdle
    /\ sb = SbIdle
    /\ ed = EdIdle
    /\ fn = FnIdle
    /\ sc = ScIdle
    /\ rv = RvIdle
    /\ ov = OvIdle
    /\ tr = TrIdle
    /\ bt = BtIdle
    /\ fm = FmIdle
    /\ db = DbIdle

\* map.on('load')
MapLoad ==
    /\ mounted /\ ~mapLoaded
    /\ Commit([Event(S, "load") EXCEPT !.mapLoaded = TRUE])

\* the user presses the button while it reads "Play Route Animation"
PlayClick ==
    /\ mounted /\ Len(segments) > 0 /\ ~isAnimating
    /\ starts < MaxStarts
    /\ Commit(PlayHandler(S))

\* the user presses the button while it reads "Pause"
StopClick ==
    /\ mounted /\ Len(segments) > 0 /\ isAnimating
    /\ Commit(StopHandler(S))

\* the user presses Trace Route: traceRequested turns true, the Map's effect runs,
\* the page's effect turns it false again
TraceClick ==
    /\ mounted /\ Len(segments) > 0
    /\ starts < MaxStarts
    /\ Commit(TraceHandler(S))

\* the directions request of run t comes back
PathResponse(t, resp) ==
    /\ runs[t].status = "path"
    /\ Commit(PathResolved(Event(S, "path"), t, GroundPathLen(resp)))

\* the 1200 ms settle timer of run t fires: the first frame is requested
SettleTimer(t) ==
    /\ runs[t].status = "settle"
    /\ Commit([Event(S, "settle") EXCEPT !.runs[t].status = "frame",
                                         !.runs[t].frames = 0,
                                         !.animationRef = t])

\* a frame of run t in which deltaTime < frameTime: only the next frame is requested
FrameIdle(t) ==
    /\ runs[t].status = "frame"
    /\ Commit([Event(S, "frame") EXCEPT !.animationRef = t])

\* a frame of run t in which deltaTime >= frameTime
FrameAdvance(t) ==
    /\ runs[t].status = "frame"
    /\ Commit(AnimateStep(S, t))

\* the 500 ms timer of run t fires: animateRoute(segIndex + 1)
PauseTimer(t) ==
    /\ runs[t].status = "pause"
    /\ Commit(animateRoute(Event(S, "next"), t, NextSegIndex(runs[t].segIndex)))

\* the editor adds or removes a segment
SegmentsChange(new) ==
    /\ mounted /\ new # segments
    /\ Commit([Event(S, "segments") EXCEPT !.segments = new])

\* darkMode changes: the map effect's cleanup, then a new map
DarkModeToggle ==
    /\ mounted /\ toggles < MaxToggles
    /\ Commit([CancelFrame(Event(S, "dark")) EXCEPT
                   !.toggles = @ + 1,
                   !.mapRef = @ + 1,
                   !.mapLoaded = FALSE,
                   !.source = NoSource,
                   !.layers = {},
                   !.markersOnMap = 0,
                   !.vehicleMarkerRef.attached = FALSE])

\* the component unmounts: the map effect's cleanup
Unmount ==
    /\ mounted
    /\ Commit([CancelFrame(Event(S, "unmount")) EXCEPT
                   !.mounted = FALSE,
                   !.mapRemoved = TRUE,
                   !.source = NoSource,
                   !.layers = {},
                   !.markersOnMap = 0,
                   !.vehicleMarkerRef.attached = FALSE])

Next ==
    \/ MapLoad
    \/ PlayClick
    \/ StopClick
    \/ TraceClick
    \/ \E t \in RunIds, resp \in Responses : PathResponse(t, resp)
    \/ \E t \in RunIds : SettleTimer(t)
    \/ \E t \in RunIds : FrameIdle(t)
    \/ \E t \in RunIds : FrameAdvance(t)
    \/ \E t \in RunIds : PauseTimer(t)
    \/ \E new \in SegLists : SegmentsChange(new)
    \/ DarkModeToggle
    \/ Unmount

Spec == Init /\ [][Next]_vars

----------------------------------------------------------------------------
(* Runs left alone: the map is loaded before a run starts, and nobody stops  *)
(* the animation, edits the segment list or tears the map down.  Frames,     *)
(* timers and directions responses are delivered fairly.                     *)

RunStep(t) ==
    \/ \E resp \in Responses : PathResponse(t, resp)
    \/ SettleTimer(t)
    \/ FrameIdle(t)
    \/ FrameAdvance(t)
    \/ PauseTimer(t)

NextLive ==
    \/ MapLoad
    \/ mapLoaded /\ PlayClick
    \/ mapLoaded /\ TraceClick
    \/ \E t \in RunIds : RunStep(t)

Fairness ==
    \A t \in RunIds :
        /\ WF_vars(\E resp \in Responses : PathResponse(t, resp))
        /\ WF_vars(SettleTimer(t))
        /\ WF_vars(FrameAdvance(t))
        /\ WF_vars(PauseTimer(t))

SpecLive == Init /\ [][NextLive]_vars /\ Fairness

----------------------------------------------------------------------------
(* The Map under any host: the props allow traceRequested to be true when   *)
(* the component mounts, before the map effect has created the map, and     *)
(* while the segment list is empty.                                         *)

InitHost ==
    /\ segments \in SegLists
    /\ mounted = FALSE
    /\ mapRef = NoMap
    /\ mapLoaded = FALSE
    /\ mapRemoved = FALSE
    /\ source = NoSource
    /\ layers = {}
    /\ vehicleMarkerRef = NoMarker
    /\ markersOnMap = 0
    /\ animationRef = 0
    /\ isAnimating = FALSE
    /\ currentSegment = 0
    /\ routeProgress = NoProgress
    /\ totalProgressRef = [distance |-> 0, duration |-> 0]
    /\ runs = [t \in RunIds |-> UnusedRun]
    /\ starts = 0
    /\ toggles = 0
    /\ completions = 0
    /\ lastComplete = 0
    /\ uncaught = FALSE
    /\ lastEvent = "init"
    /\ mapFaults = {}
    /\ pb = PbIdle
    /\ sb = SbIdle
    /\ ed = EdIdle
    /\ fn = FnIdle
    /\ sc = ScIdle
    /\ rv = RvIdle
    /\ ov = OvIdle
    /\ tr = TrIdle
    /\ bt = BtIdle
    /\ fm = FmIdle
    /\ db = DbIdle

\* the effects of the first render with traceRequested false: the map is created
Mount ==
    /\ ~mounted /\ mapRef = NoMap
    /\ Commit([S EXCEPT !.mounted = TRUE, !.mapRef = 0])

\* the effects of the first render with traceRequested true: the traceRequested
\* effect runs animateRoute(0) first, then the map effect creates the map
MountWithTrace ==
    /\ ~mounted /\ mapRef = NoMap
    /\ starts < MaxStarts
    /\ Commit([TraceHandler([S EXCEPT !.mounted = TRUE]) EXCEPT !.mapRef = 0])

\* traceRequested turns true while the segment list is empty
TraceEmpty ==
    /\ mounted /\ Len(segments) = 0
    /\ starts < MaxStarts
    /\ Commit(TraceHandler(S))

NextHost ==
    \/ Mount
    \/ MountWithTrace
    \/ TraceEmpty
    \/ Next

SpecHost == InitHost /\ [][NextHost]_vars

----------------------------------------------------------------------------
(* LocationSearch (routes/new/page.tsx): the debounced search box.          *)

\* a cleanup that leaves the pending timer alone
ClearTimerNot(timers) == timers

\* the effect's cleanup: clearTimeout(timer)
ClearTimer(timers) == {}

\* the debounce effect for the value q: cleanup of the previous run, then setTimeout(..., 300)
Debounce(b, q) ==
    [b EXCEPT !.search = q, !.timers = ClearTimer(@) \cup {q}, !.windows = @ + 1]

\* the component mounts: the effect runs for search = ''
SearchMount ==
    /\ sb.ev = "none"
    /\ sb' = [Debounce(sb, "") EXCEPT !.ev = "mount"]
    /\ UNCHANGED <<animVars, pb, ed, fn, sc, rv, ov, tr, bt, fm, db>>

\* onChange of the input: setSearch(e.target.value)
SearchType(q) ==
    /\ sb.ev # "none" /\ q # sb.search
    /\ sb.typed < MaxTyped
    /\ sb' = [Debounce(sb, q) EXCEPT !.typed = @ + 1, !.ev = "type"]
    /\ UNCHANGED <<animVars, pb, ed, fn, sc, rv, ov, tr, bt, fm, db>>

\* searchLocation(query), up to its await
searchLocation(b, query) ==
    IF Len(query) < 2
    THEN [b EXCEPT !.shown = 0]                                   \* setResults([])
    ELSE [b EXCEPT !.isSearching = TRUE,
                   !.requests = Append(@, [query |-> query, search |-> b.search]),
                   !.inflight = @ \cup {Len(b.requests) + 1}]

\* a debounce timer fires: searchLocation(search) of the render that set it
SearchTimer(q) ==
    /\ q \in sb.timers
    /\ sb' = [searchLocation([sb EXCEPT !.timers = @ \ {q}], q) EXCEPT
                  !.fired = @ + 1, !.ev = "fire"]
    /\ UNCHANGED <<animVars, pb, ed, fn, sc, rv, ov, tr, bt, fm, db>>

\* the geocoding response of request r arrives: setResults(locations), or the catch
SearchResponse(r, ok) ==
    /\ r \in sb.inflight
    /\ sb' = [sb EXCEPT !.inflight = @ \ {r},
                        !.shown = IF ok THEN r ELSE @,
                        !.newest = IF ok /\ r > @ THEN r ELSE @,
                        !.isSearching = FALSE,
                        !.ev = "response"]
    /\ UNCHANGED <<animVars, pb, ed, fn, sc, rv, ov, tr, bt, fm, db>>

\* the user picks a result: onChange(location); setSearch(''); setResults([])
SearchSelect ==
    /\ sb.shown # 0
    /\ sb' = [(IF sb.search = "" THEN sb ELSE Debounce(sb, "")) EXCEPT
                  !.shown = 0, !.ev = "select"]
    /\ UNCHANGED <<animVars, pb, ed, fn, sc, rv, ov, tr, bt, fm, db>>

InitSearch ==
    /\ InitAnimator
    /\ segments = << >>
    /\ pb = PbIdle
    /\ sb = SbIdle
    /\ ed = EdIdle
    /\ fn = FnIdle
    /\ sc = ScIdle
    /\ rv = RvIdle
    /\ ov = OvIdle
    /\ tr = TrIdle
    /\ bt = BtIdle
    /\ fm = FmIdle
    /\ db = DbIdle

NextSearch ==
    \/ SearchMount
    \/ \E q \in Queries : SearchType(q)
    \/ \E q \in Queries : SearchTimer(q)
    \/ \E r \in 1..(MaxTyped + 1), ok \in BOOLEAN : SearchResponse(r, ok)
    \/ SearchSelect

SpecSearch == InitSearch /\ [][NextSearch]_vars

----------------------------------------------------------------------------
(* Saving a route: handleSaveRoute of the editor page and routes.create of   *)
(* the backend router.  The procedure is public: besides the editor's        *)
(* requests it receives inputs of any client.                                *)

\* a waypoint of the create-route input
Waypoint(location) ==
    [lat |-> location.coordinates[2], lng |-> location.coordinates[1],
     name |-> location.name]

\* handleSaveRoute: segments.forEach pushes from of the first segment, then every to
RECURSIVE ToWaypoints(_, _)
ToWaypoints(segs, index) ==
    IF index > Len(segs) THEN << >>
    ELSE (IF index = 1 THEN <<Waypoint(segs[index].from)>> ELSE << >>)
         \o <<Waypoint(segs[index].to)>>
         \o ToWaypoints(segs, index + 1)

\* handleSaveRoute
handleSaveRoute(e) ==
    IF e.routeName = "" \/ Len(e.segments) = 0
    THEN [e EXCEPT !.ev = "alert"]
    ELSE LET input == [name |-> e.routeName, waypoints |-> ToWaypoints(e.segments, 1)]
         IN  [e EXCEPT !.queue = Append(@, input),
                       !.saves = @ + 1, !.ev = "sent"]

\* an input schema that does not ask for two waypoints
zodInputNameOnly(input) ==
    Len(input.name) >= 1

\* routes.create .input(z.object({name: z.string().min(1), ..., waypoints: z.array(...).min(2)}))
zodInput(input) ==
    Len(input.name) >= 1 /\ Len(input.waypoints) >= 2

\* routes.create: the input is validated, then the mutation stores the route
routesCreate(e, input) ==
    IF zodInput(input)
    THEN [e EXCEPT !.call = [input |-> input, outcome |-> "created"]]
    ELSE [e EXCEPT !.call = [input |-> input, outcome |-> "rejected"]]

\* onChange of the route name input
EdSetName(n) ==
    /\ ~ed.navigated /\ n # ed.routeName
    /\ ed' = [ed EXCEPT !.routeName = n, !.ev = "name"]
    /\ UNCHANGED <<animVars, pb, sb, fn, sc, rv, ov, tr, bt, fm, db>>

\* addSegment with fromLocation and toLocation chosen
EdAddSegment(from, to) ==
    /\ ~ed.navigated /\ Len(ed.segments) < MaxSegs
    /\ ed' = [ed EXCEPT !.segments = Append(@, [from |-> from, to |-> to, mode |-> "flight"]),
                        !.ev = "add"]
    /\ UNCHANGED <<animVars, pb, sb, fn, sc, rv, ov, tr, bt, fm, db>>

\* removeSegment(index)
EdRemoveSegment(index) ==
    /\ ~ed.navigated /\ index \in 1..Len(ed.segments)
    /\ ed' = [ed EXCEPT !.segments = SubSeq(@, 1, index - 1) \o SubSeq(@, index + 1, Len(@)),
                        !.ev = "remove"]
    /\ UNCHANGED <<animVars, pb, sb, fn, sc, rv, ov, tr, bt, fm, db>>

\* the user presses Save Route
EdSave ==
    /\ ~ed.navigated /\ ed.saves < MaxSaves
    /\ ed' = handleSaveRoute(ed)
    /\ UNCHANGED <<animVars, pb, sb, fn, sc, rv, ov, tr, bt, fm, db>>

\* the server handles the oldest request of the editor; onSuccess leaves the page
ServerCreate ==
    /\ ed.queue # << >>
    /\ LET e == routesCreate([ed EXCEPT !.queue = Tail(@)], Head(ed.queue))
       IN  ed' = [e EXCEPT !.navigated = @ \/ (e.call.outcome = "created"),
                           !.ev = "served"]
    /\ UNCHANGED <<animVars, pb, sb, fn, sc, rv, ov, tr, bt, fm, db>>

\* the inputs another client may send: a name or none, up to three waypoints
ApiInputs ==
    { [name |-> n,
       waypoints |-> [i \in 1..k |-> [lat |-> 10 * i, lng |-> 20 * i, name |-> "Stop"]]] :
          n \in RouteNames, k \in 0..3 }

\* the server handles a request of another client
ApiCreate(input) ==
    /\ ed' = [routesCreate(ed, input) EXCEPT !.ev = "api"]
    /\ UNCHANGED <<animVars, pb, sb, fn, sc, rv, ov, tr, bt, fm, db>>

InitEditor ==
    /\ InitAnimator
    /\ segments = << >>
    /\ pb = PbIdle
    /\ sb = SbIdle
    /\ ed = EdIdle
    /\ fn = FnIdle
    /\ sc = ScIdle
    /\ rv = RvIdle
    /\ ov = OvIdle
    /\ tr = TrIdle
    /\ bt = BtIdle
    /\ fm = FmIdle
    /\ db = DbIdle

NextEditor ==
    \/ \E n \in RouteNames : EdSetName(n)
    \/ \E from \in EdLocations, to \in EdLocations : EdAddSegment(from, to)
    \/ \E index \in 1..MaxSegs : EdRemoveSegment(index)
    \/ EdSave
    \/ ServerCreate
    \/ \E input \in ApiInputs : ApiCreate(input)

SpecEditor == InitEditor /\ [][NextEditor]_vars

----------------------------------------------------------------------------
(* The static markers: updateMapWithSegments *)

\* markers kept although the list is reset
ClearMarkersKeep(markersRef) == markersRef

\* markersRef.current.forEach(marker => marker.remove()); markersRef.current = []
ClearMarkers(markersRef) == << >>

\* the ids of a list of locations
IdsOf(locs) == {locs[i] : i \in 1..Len(locs)}

\* segments.forEach: from is collected at index 0 or when its id is new, to
\* when its id is new
RECURSIVE allLocations(_, _, _)
allLocations(segs, index, acc) ==
    IF index > Len(segs) THEN acc
    ELSE LET segment == segs[index]
             acc1 == IF index = 1 \/ segment.from \notin IdsOf(acc)
                     THEN Append(acc, segment.from) ELSE acc
             acc2 == IF segment.to \notin IdsOf(acc1)
                     THEN Append(acc1, segment.to) ELSE acc1
         IN  allLocations(segs, index + 1, acc2)

\* allLocations.forEach: the marker of location index of n (counted from 0)
MarkerOf(location, index, n, map) ==
    [id |-> location,
     color |-> IF index = 0 THEN StartColor
               ELSE IF index = n - 1 THEN EndColor ELSE OtherColor,
     map |-> map]

\* updateMapWithSegments as created in a render whose segment list is segs
updateMapWithSegments(c, segs) ==
    IF c.gen = 0 THEN c
    ELSE IF ~c.styleLoaded
         THEN \* once('load', updateMapWithSegments): a map fires load once, so
              \* a listener registered after that is never called
              IF c.loaded THEN c ELSE [c EXCEPT !.queue = Append(@, segs)]
    ELSE LET locs == allLocations(segs, 1, << >>)
             kept == ClearMarkers(c.markersRef)
         IN  [c EXCEPT !.markersRef =
                  kept \o [i \in 1..Len(locs) |->
                               MarkerOf(locs[i], i - 1, Len(locs), c.gen)],
                       !.ran = TRUE]

\* the map effect: a new map, whose load handler sees the segment list of
\* this render
NewMap(c) ==
    [c EXCEPT !.gen = @ + 1, !.loaded = FALSE, !.styleLoaded = FALSE,
              !.onLoad = c.segments, !.queue = << >>]

\* the load handler, then the once('load') listeners in the order registered
RECURSIVE RunQueued(_, _, _)
RunQueued(c, queue, i) ==
    IF i > Len(queue) THEN c
    ELSE RunQueued(updateMapWithSegments(c, queue[i]), queue, i + 1)

\* the view is mounted with a segment list: the map effect, then the
\* segments effect
SceneMount(segs) ==
    /\ ~sc.mounted
    /\ sc' = [updateMapWithSegments(
                  NewMap([sc EXCEPT !.mounted = TRUE, !.segments = segs,
                                    !.ran = FALSE]), segs)
              EXCEPT !.ev = "mount"]
    /\ UNCHANGED <<animVars, pb, sb, ed, fn, rv, ov, tr, bt, fm, db>>

\* the map fires load. The handler adds the source mapbox-dem before it calls
\* updateMapWithSegments; isStyleLoaded() answers styleLoaded from then on,
\* false while the map counts a source that is still loading
SceneLoad(styleLoaded) ==
    /\ sc.mounted
    /\ ~sc.loaded
    /\ LET c1 == [sc EXCEPT !.loaded = TRUE, !.styleLoaded = styleLoaded,
                            !.queue = << >>, !.ran = FALSE]
           c2 == IF Len(sc.onLoad) > 0
                 THEN updateMapWithSegments(c1, sc.onLoad) ELSE c1
       IN  sc' = [RunQueued(c2, sc.queue, 1) EXCEPT !.ev = "load"]
    /\ UNCHANGED <<animVars, pb, sb, ed, fn, rv, ov, tr, bt, fm, db>>

\* the host passes another segment list: the segments effect. Before load
\* isStyleLoaded() is false; after it, it answers styleLoaded
SceneSegments(segs, styleLoaded) ==
    /\ sc.mounted
    /\ sc.changes < MaxChanges
    /\ segs # sc.segments
    /\ sc.loaded \/ ~styleLoaded
    /\ sc' = [updateMapWithSegments(
                  [sc EXCEPT !.segments = segs, !.styleLoaded = styleLoaded,
                             !.ran = FALSE], segs)
              EXCEPT !.changes = @ + 1, !.ev = "segments"]
    /\ UNCHANGED <<animVars, pb, sb, ed, fn, rv, ov, tr, bt, fm, db>>

\* the host toggles dark mode: map.remove(), then the map effect again
SceneDarkMode ==
    /\ sc.mounted
    /\ sc.toggles < MaxSceneToggles
    /\ sc' = [NewMap(sc) EXCEPT !.toggles = @ + 1, !.ran = FALSE, !.ev = "darkMode"]
    /\ UNCHANGED <<animVars, pb, sb, ed, fn, rv, ov, tr, bt, fm, db>>

InitScene ==
    /\ InitAnimator
    /\ segments = << >>
    /\ pb = PbIdle
    /\ sb = SbIdle
    /\ ed = EdIdle
    /\ fn = FnIdle
    /\ sc = ScIdle
    /\ rv = RvIdle
    /\ ov = OvIdle
    /\ tr = TrIdle
    /\ bt = BtIdle
    /\ fm = FmIdle
    /\ db = DbIdle

NextScene ==
    \/ \E segs \in SceneLists : SceneMount(segs)
    \/ \E styleLoaded \in BOOLEAN : SceneLoad(styleLoaded)
    \/ \E segs \in SceneLists, styleLoaded \in BOOLEAN : SceneSegments(segs, styleLoaded)
    \/ SceneDarkMode

SpecScene == InitScene /\ [][NextScene]_vars

----------------------------------------------------------------------------
(* The reveal loop of one segment *)

\* the whole path as a line
FullPath(r) == [i \in 1..r.n |-> (i - 1) * r.unit]

\* interpolatePosition along the line: p1 + (p2 - p1) * t
interpolatePosition(p1, p2, t, unit) == p1 + ((p2 - p1) * t) \div unit

\* an end test that lets the frame landing on the last point interpolate
PastEndStrict(interpolationProgress, n, unit) == interpolationProgress > (n - 1) * unit

\* if (interpolationProgress >= path.length - 1)
PastEnd(interpolationProgress, n, unit) == interpolationProgress >= (n - 1) * unit

\* animateStep of the first component, in a frame with deltaTime >= frameTime:
\* interpolationProgress += progressPerFrame, which makes it
\* frames * (path.length - 1) / totalFrames
animateStep(r) ==
    LET k == r.frames + 1
        interpolationProgress == r.interpolationProgress + (r.n - 1)
        currentPathIndex == interpolationProgress \div r.unit
        t == interpolationProgress - currentPathIndex * r.unit
        currentPos == interpolatePosition(
                          FullPath(r)[currentPathIndex + 1],
                          FullPath(r)[Min(currentPathIndex + 1, r.n - 1) + 1],
                          t, r.unit)
    IN  IF PastEnd(interpolationProgress, r.n, r.unit)
        THEN [r EXCEPT !.frames = k, !.interpolationProgress = interpolationProgress,
                       !.data = FullPath(r), !.status = "pause"]
        ELSE [r EXCEPT !.frames = k, !.interpolationProgress = interpolationProgress,
                       !.currentPathIndex = currentPathIndex, !.t = t,
                       !.drawnPath = Append(@, currentPos),
                       !.data = Append(r.drawnPath, currentPos)]

\* animateStep of the progressive-reveal component: path.slice(0, step + 1)
animateStepReveal(r) ==
    IF r.frames >= r.n
    THEN [r EXCEPT !.status = "pause"]
    ELSE [r EXCEPT !.data = SubSeq(FullPath(r), 1, r.frames + 1),
                   !.frames = @ + 1]

RevealFrame ==
    /\ rv.status = "frame"
    /\ rv.variant = "first"
    /\ rv' = animateStep(rv)
    /\ UNCHANGED <<animVars, pb, sb, ed, fn, sc, ov, tr, bt, fm, db>>

RevealFrameSlice ==
    /\ rv.status = "frame"
    /\ rv.variant = "reveal"
    /\ rv' = animateStepReveal(rv)
    /\ UNCHANGED <<animVars, pb, sb, ed, fn, sc, ov, tr, bt, fm, db>>

\* the 500 ms timer: animateRoute(segIndex + 1)
RevealPause ==
    /\ rv.status = "pause"
    /\ rv' = [rv EXCEPT !.status = "next"]
    /\ UNCHANGED <<animVars, pb, sb, ed, fn, sc, ov, tr, bt, fm, db>>

InitReveal ==
    /\ InitAnimator
    /\ segments = << >>
    /\ pb = PbIdle
    /\ sb = SbIdle
    /\ ed = EdIdle
    /\ fn = FnIdle
    /\ sc = ScIdle
    /\ rv \in RvInputs
    /\ ov = OvIdle
    /\ tr = TrIdle
    /\ bt = BtIdle
    /\ fm = FmIdle
    /\ db = DbIdle

NextReveal ==
    \/ RevealFrame
    \/ RevealFrameSlice
    \/ RevealPause

SpecReveal == InitReveal /\ [][NextReveal]_vars

----------------------------------------------------------------------------
(* The route-<i> overlays of the precomputed-paths and camera-follow         *)
(* components                                                                *)

\* map.removeLayer(`route-${i}`)
OvRemoveLayer(o, i) == [o EXCEPT !.layers = @ \ {i}]

\* map.removeSource(`route-${i}`): refused with an error event while a layer
\* uses the source
OvRemoveSource(o, i) ==
    IF i \in o.layers THEN [o EXCEPT !.faults = @ \cup {"sourceWithLayers"}]
    ELSE [o EXCEPT !.sources = @ \ {i}]

\* map.addSource(`route-${i}`, ...): refused when the name is in use
OvAddSource(o, i) ==
    IF i \in o.sources THEN [o EXCEPT !.faults = @ \cup {"nameInUse"}]
    ELSE [o EXCEPT !.sources = @ \cup {i}]

\* map.addLayer({id: `route-${i}`, source: `route-${i}`}): refused when the
\* name is in use or the source is missing
OvAddLayer(o, i) ==
    IF i \in o.layers THEN [o EXCEPT !.faults = @ \cup {"nameInUse"}]
    ELSE IF i \notin o.sources THEN [o EXCEPT !.faults = @ \cup {"layerWithoutSource"}]
    ELSE [o EXCEPT !.layers = @ \cup {i}]

\* button.onclick, play branch: segments.forEach: if (getSource) removeSource
RECURSIVE ClearForPlay(_, _)
ClearForPlay(o, i) ==
    IF i >= o.n THEN o
    ELSE ClearForPlay(IF i \in o.sources THEN OvRemoveSource(o, i) ELSE o, i + 1)

\* drawAllSegments, first loop: removeLayer, then removeSource
RECURSIVE ClearForDraw(_, _)
ClearForDraw(o, i) ==
    IF i >= o.n THEN o
    ELSE LET o1 == IF i \in o.layers THEN OvRemoveLayer(o, i) ELSE o
             o2 == IF i \in o1.sources THEN OvRemoveSource(o1, i) ELSE o1
         IN  ClearForDraw(o2, i + 1)

\* drawAllSegments, second loop: addSource, addLayer
RECURSIVE DrawEach(_, _)
DrawEach(o, i) ==
    IF i >= o.n THEN o
    ELSE DrawEach(OvAddLayer(OvAddSource(o, i), i), i + 1)

drawAllSegments(o) == DrawEach(ClearForDraw(o, 0), 0)

\* the segments effect on a loaded map: updateMapWithSegments draws them all
OverlayDraw ==
    /\ ov.variant # "none"
    /\ ov' = [drawAllSegments(ov) EXCEPT !.ev = "draw"]
    /\ UNCHANGED <<animVars, pb, sb, ed, fn, sc, rv, tr, bt, fm, db>>

\* the host passes a list of n segments
OverlaySegments(n) ==
    /\ ov.variant # "none"
    /\ n # ov.n
    /\ ov' = [ov EXCEPT !.n = n, !.ev = "segments"]
    /\ UNCHANGED <<animVars, pb, sb, ed, fn, sc, rv, tr, bt, fm, db>>

\* the play button while not animating
OverlayPlay ==
    /\ ov.variant # "none"
    /\ ov.anim = NoSegment
    /\ ov.plays < MaxPlays
    /\ ov' = [ClearForPlay(ov, 0) EXCEPT !.anim = 0, !.plays = @ + 1, !.ev = "play"]
    /\ UNCHANGED <<animVars, pb, sb, ed, fn, sc, rv, tr, bt, fm, db>>

\* animateRoute(segmentIndex) of the camera-follow component: the source is
\* given new data when it exists, else source and layer are added; the
\* precomputed-paths component animates on the source live-route
OverlayAnimate ==
    /\ ov.anim # NoSegment
    /\ LET i == ov.anim
           o1 == IF ov.variant = "camera" /\ i \notin ov.sources
                 THEN OvAddLayer(OvAddSource(ov, i), i) ELSE ov
       IN  ov' = IF i >= ov.n
                 THEN [ov EXCEPT !.anim = NoSegment, !.ev = "complete"]
                 ELSE [o1 EXCEPT !.anim = i + 1, !.ev = "animate"]
    /\ UNCHANGED <<animVars, pb, sb, ed, fn, sc, rv, tr, bt, fm, db>>

InitOverlay ==
    /\ InitAnimator
    /\ segments = << >>
    /\ pb = PbIdle
    /\ sb = SbIdle
    /\ ed = EdIdle
    /\ fn = FnIdle
    /\ sc = ScIdle
    /\ rv = RvIdle
    /\ ov \in OvInputs
    /\ tr = TrIdle
    /\ bt = BtIdle
    /\ fm = FmIdle
    /\ db = DbIdle

NextOverlay ==
    \/ OverlayDraw
    \/ \E n \in 1..MaxOverlaySegs : OverlaySegments(n)
    \/ OverlayPlay
    \/ OverlayAnimate

SpecOverlay == InitOverlay /\ [][NextOverlay]_vars

----------------------------------------------------------------------------
(* traceRequested and onTraceComplete: the page of part_002 with the Map,   *)
(* one render at a time                                                      *)

\* onTraceComplete = () => setTraceRequested(false)
onTraceComplete(r) == [r EXCEPT !.signals = @ + 1, !.qTrace = Update(0)]

\* animateRoute(segIndex) of chain k, up to its first await
animateRouteOf(r, k, segIndex) ==
    IF segIndex >= r.runs[k].segs
    THEN onTraceComplete([r EXCEPT !.qAnimating = Update(0),
                                   !.runs[k].at = segIndex,
                                   !.runs[k].done = TRUE])
    ELSE [r EXCEPT !.qAnimating = Update(1), !.qSegment = Update(segIndex),
                   !.runs[k].at = segIndex]

\* the Map's effect on [traceRequested, animateRoute]
traceEffect(r) ==
    IF r.traceRequested = 1
    THEN LET r1 == [r EXCEPT !.runs = Append(@, [segs |-> r.n, at |-> 0, done |-> FALSE])]
         IN  animateRouteOf(r1, Len(r1.runs), 0)
    ELSE r

\* the Map's effect on [isAnimating, currentSegment, traceRequested,
\* onTraceComplete], which only the progressive-reveal component has
notifyEffect(r) ==
    IF r.variant = "reveal" /\ r.isAnimating = 0 /\ r.currentSegment = 0
           /\ r.traceRequested = 1
    THEN onTraceComplete(r) ELSE r

\* a page that leaves traceRequested as it is
pageResetEffectNone(r) == r

\* the page's effect on [segments, traceRequested]
pageResetEffect(r) ==
    IF r.n > 0 /\ r.traceRequested = 1 THEN [r EXCEPT !.qTrace = Update(0)] ELSE r

\* the value a queued update gives to a state
Applied(q, old) == IF q.set THEN q.val ELSE old

\* the queued updates are rendered and the effects of the render run, the
\* Map's before the page's, until no update changes a state.  page tells that
\* the page renders whatever the updates are (its props or another state of
\* it changed), segs that the segment list is a new one.  A render of the page
\* makes a new onTraceComplete and with it a new animateRoute, so both Map
\* effects run again; a render of the Map alone runs notifyEffect, whose
\* states changed
RECURSIVE Render(_, _, _, _)
Render(r, page, segs, fuel) ==
    LET trace == Applied(r.qTrace, r.traceRequested)
        animating == Applied(r.qAnimating, r.isAnimating)
        segment == Applied(r.qSegment, r.currentSegment)
        pageRenders == page \/ trace # r.traceRequested
        mapRenders == animating # r.isAnimating \/ segment # r.currentSegment
        r1 == [r EXCEPT !.traceRequested = trace, !.isAnimating = animating,
                        !.currentSegment = segment, !.qTrace = NoUpdate,
                        !.qAnimating = NoUpdate, !.qSegment = NoUpdate]
        depsOfReset == segs \/ trace # r.traceRequested
    IN  IF fuel = 0 THEN [r1 EXCEPT !.ev = "diverged"]
        ELSE IF pageRenders
        THEN LET r2 == notifyEffect(traceEffect(r1))
                 r3 == IF depsOfReset THEN pageResetEffect(r2) ELSE r2
             IN  Render(r3, FALSE, FALSE, fuel - 1)
        ELSE IF mapRenders
        THEN Render(notifyEffect(r1), FALSE, FALSE, fuel - 1)
        ELSE r1

\* the user clicks Trace Route (disabled while there is no segment)
TraceRouteClick ==
    /\ tr.variant # "none"
    /\ tr.n > 0
    /\ tr.clicks < MaxTraceClicks
    /\ tr' = [Render([tr EXCEPT !.qTrace = Update(1)], FALSE, FALSE, 6)
              EXCEPT !.clicks = @ + 1, !.ev = "click"]
    /\ UNCHANGED <<animVars, pb, sb, ed, fn, sc, rv, ov, bt, fm, db>>

\* the user adds or removes a segment
TraceEdit(n) ==
    /\ tr.variant # "none"
    /\ tr.edits < MaxEdits
    /\ n \in {tr.n - 1, tr.n + 1} \cap (0..MaxTraceSegs)
    /\ tr' = [Render([tr EXCEPT !.n = n], TRUE, TRUE, 6)
              EXCEPT !.edits = @ + 1, !.ev = "edit"]
    /\ UNCHANGED <<animVars, pb, sb, ed, fn, sc, rv, ov, bt, fm, db>>

\* the page renders for another reason (dark mode, the route name)
TracePageRender ==
    /\ tr.variant # "none"
    /\ tr.renders < MaxRenders
    /\ tr' = [Render(tr, TRUE, FALSE, 6) EXCEPT !.renders = @ + 1, !.ev = "render"]
    /\ UNCHANGED <<animVars, pb, sb, ed, fn, sc, rv, ov, bt, fm, db>>

\* chain k finishes a segment: setTimeout(() => animateRoute(segIndex + 1), 500)
TraceAdvance(k) ==
    /\ k \in 1..Len(tr.runs)
    /\ ~tr.runs[k].done
    /\ tr' = [Render(animateRouteOf(tr, k, tr.runs[k].at + 1), FALSE, FALSE, 6)
              EXCEPT !.ev = "advance"]
    /\ UNCHANGED <<animVars, pb, sb, ed, fn, sc, rv, ov, bt, fm, db>>

InitTrace ==
    /\ InitAnimator
    /\ segments = << >>
    /\ pb = PbIdle
    /\ sb = SbIdle
    /\ ed = EdIdle
    /\ fn = FnIdle
    /\ sc = ScIdle
    /\ rv = RvIdle
    /\ ov = OvIdle
    /\ tr \in TrInputs
    /\ bt = BtIdle
    /\ fm = FmIdle
    /\ db = DbIdle

NextTrace ==
    \/ TraceRouteClick
    \/ \E n \in 0..MaxTraceSegs : TraceEdit(n)
    \/ TracePageRender
    \/ \E k \in 1..MaxTraceClicks : TraceAdvance(k)

SpecTrace == InitTrace /\ [][NextTrace]_vars

----------------------------------------------------------------------------
(* The play/pause button of the first Map component, render by render *)

\* the button effect: its cleanup removes the button of the previous run,
\* then a new button is created with the play label when there are segments
buttonEffect(b) ==
    IF b.n = 0
    THEN [b EXCEPT !.present = FALSE, !.label = ""]
    ELSE [b EXCEPT !.present = TRUE, !.label = PlayLabel, !.seen = b.isAnimating]

\* a render after setIsAnimating(v): the effect runs again when one of its
\* dependencies (segments, darkMode, isAnimating, animateRoute) has changed
RenderButton(b, v, depsChanged) ==
    LET c == [b EXCEPT !.isAnimating = v]
    IN IF depsChanged \/ v # b.isAnimating THEN buttonEffect(c) ELSE c

\* button.onclick: the branch is chosen by the isAnimating of the render
\* that created the button; cancelled: the frame in animationRef belonged to
\* a chain that was in its frame loop
onclick(b, cancelled) ==
    IF ~b.seen
    THEN RenderButton([b EXCEPT !.label = PauseLabel, !.running = @ + 1],
                      TRUE, FALSE)
    ELSE RenderButton([b EXCEPT !.label = PlayLabel,
                                !.running = IF cancelled /\ @ > 0 THEN @ - 1 ELSE @],
                      FALSE, FALSE)

\* the component mounts with a segment list: the map effect sets mapRef
\* before the button effect runs
ButtonMount(n, dark) ==
    /\ ~bt.mounted
    /\ bt' = [buttonEffect([bt EXCEPT !.mounted = TRUE, !.n = n, !.darkMode = dark])
              EXCEPT !.ev = "mount"]
    /\ UNCHANGED <<animVars, pb, sb, ed, fn, sc, rv, ov, tr, fm, db>>

\* the user presses the button
ButtonClick(cancelled) ==
    /\ bt.present
    /\ bt.clicks < MaxButtonClicks
    /\ bt' = [onclick(bt, cancelled) EXCEPT !.clicks = @ + 1, !.ev = "click"]
    /\ UNCHANGED <<animVars, pb, sb, ed, fn, sc, rv, ov, tr, fm, db>>

\* a chain goes on to a segment of its list: setIsAnimating(true)
ButtonAdvance ==
    /\ bt.running > 0
    /\ bt' = [RenderButton(bt, TRUE, FALSE) EXCEPT !.ev = "advance"]
    /\ UNCHANGED <<animVars, pb, sb, ed, fn, sc, rv, ov, tr, fm, db>>

\* a chain has passed its last segment: setIsAnimating(false)
ButtonComplete ==
    /\ bt.running > 0
    /\ bt' = [RenderButton([bt EXCEPT !.running = @ - 1], FALSE, FALSE)
              EXCEPT !.ev = "complete"]
    /\ UNCHANGED <<animVars, pb, sb, ed, fn, sc, rv, ov, tr, fm, db>>

\* the host passes another segment list
ButtonSegments(n) ==
    /\ bt.mounted
    /\ bt.changes < MaxButtonChanges
    /\ n # bt.n
    /\ bt' = [RenderButton([bt EXCEPT !.n = n], bt.isAnimating, TRUE)
              EXCEPT !.changes = @ + 1, !.ev = "segments"]
    /\ UNCHANGED <<animVars, pb, sb, ed, fn, sc, rv, ov, tr, fm, db>>

\* the host toggles darkMode
ButtonDarkMode ==
    /\ bt.mounted
    /\ bt.changes < MaxButtonChanges
    /\ bt' = [RenderButton([bt EXCEPT !.darkMode = ~@], bt.isAnimating, TRUE)
              EXCEPT !.changes = @ + 1, !.ev = "darkMode"]
    /\ UNCHANGED <<animVars, pb, sb, ed, fn, sc, rv, ov, tr, fm, db>>

InitButton ==
    /\ InitAnimator
    /\ segments = << >>
    /\ pb = PbIdle
    /\ sb = SbIdle
    /\ ed = EdIdle
    /\ fn = FnIdle
    /\ sc = ScIdle
    /\ rv = RvIdle
    /\ ov = OvIdle
    /\ tr = TrIdle
    /\ bt = BtIdle
    /\ fm = FmIdle
    /\ db = DbIdle

NextButton ==
    \/ \E n \in 0..MaxButtonSegs, dark \in BOOLEAN : ButtonMount(n, dark)
    \/ \E cancelled \in BOOLEAN : ButtonClick(cancelled)
    \/ ButtonAdvance
    \/ ButtonComplete
    \/ \E n \in 0..MaxButtonSegs : ButtonSegments(n)
    \/ ButtonDarkMode

SpecButton == InitButton /\ [][NextButton]_vars

----------------------------------------------------------------------------
(* The add-segment form of the page of part_002 *)

\* "Start with add segment form open if no segments"
openFormEffect(f) ==
    IF Len(f.segments) = 0 /\ ~f.isAddingSegment
    THEN [f EXCEPT !.isAddingSegment = TRUE]
    ELSE f

\* addSegment
addSegment(f) ==
    IF f.fromLocation # NoLocation /\ f.toLocation # NoLocation
    THEN [f EXCEPT !.segments = Append(@, [from |-> f.fromLocation,
                                           to |-> f.toLocation,
                                           mode |-> f.selectedMode]),
                   !.fromLocation = f.toLocation,
                   !.toLocation = NoLocation,
                   !.selectedMode = "flight"]
    ELSE f

\* segments.filter((_, i) => i !== index), indices from 1
Without(segs, index) == SubSeq(segs, 1, index - 1) \o SubSeq(segs, index + 1, Len(segs))

\* a removeSegment that leaves fromLocation alone
removeSegmentKeepFrom(f, index) == [f EXCEPT !.segments = Without(@, index)]

\* removeSegment(index), indices from 1
removeSegment(f, index) ==
    LET newSegments == Without(f.segments, index)
    IN  [f EXCEPT !.segments = newSegments,
                  !.fromLocation =
                      IF index = Len(f.segments) /\ Len(newSegments) > 0
                      THEN newSegments[Len(newSegments)].to
                      ELSE IF Len(newSegments) = 0 THEN NoLocation ELSE @]

\* the first render of the page
FormMount ==
    /\ fm.ev = "none"
    /\ fm' = [openFormEffect(fm) EXCEPT !.ev = "mount"]
    /\ UNCHANGED <<animVars, pb, sb, ed, fn, sc, rv, ov, tr, bt, db>>

\* the From search box, shown while there is no fromLocation or no segment
FormPickFrom(l) ==
    /\ fm.isAddingSegment
    /\ fm.fromLocation = NoLocation \/ Len(fm.segments) = 0
    /\ fm' = [fm EXCEPT !.fromLocation = l, !.ev = "from"]
    /\ UNCHANGED <<animVars, pb, sb, ed, fn, sc, rv, ov, tr, bt, db>>

\* the To search box
FormPickTo(l) ==
    /\ fm.isAddingSegment
    /\ fm' = [fm EXCEPT !.toLocation = l, !.ev = "to"]
    /\ UNCHANGED <<animVars, pb, sb, ed, fn, sc, rv, ov, tr, bt, db>>

\* a transport mode button, shown once both locations are chosen
FormPickMode(m) ==
    /\ fm.isAddingSegment
    /\ fm.fromLocation # NoLocation /\ fm.toLocation # NoLocation
    /\ fm' = [fm EXCEPT !.selectedMode = m, !.ev = "mode"]
    /\ UNCHANGED <<animVars, pb, sb, ed, fn, sc, rv, ov, tr, bt, db>>

\* the Add button, shown once both locations are chosen
FormAdd ==
    /\ fm.isAddingSegment
    /\ fm.fromLocation # NoLocation /\ fm.toLocation # NoLocation
    /\ Len(fm.segments) < MaxFormSegs
    /\ fm' = [openFormEffect(addSegment(fm)) EXCEPT !.ev = "add"]
    /\ UNCHANGED <<animVars, pb, sb, ed, fn, sc, rv, ov, tr, bt, db>>

\* the Cancel button, shown once both locations are chosen
FormCancel ==
    /\ fm.isAddingSegment
    /\ fm.fromLocation # NoLocation /\ fm.toLocation # NoLocation
    /\ fm' = [openFormEffect([fm EXCEPT !.isAddingSegment = FALSE,
                                        !.toLocation = NoLocation])
              EXCEPT !.ev = "cancel"]
    /\ UNCHANGED <<animVars, pb, sb, ed, fn, sc, rv, ov, tr, bt, db>>

\* "Add another location"
FormOpen ==
    /\ ~fm.isAddingSegment
    /\ Len(fm.segments) > 0
    /\ fm' = [fm EXCEPT !.isAddingSegment = TRUE, !.ev = "open"]
    /\ UNCHANGED <<animVars, pb, sb, ed, fn, sc, rv, ov, tr, bt, db>>

\* the trash button of segment index
FormRemove(index) ==
    /\ index \in 1..Len(fm.segments)
    /\ fm' = [openFormEffect(removeSegment(fm, index)) EXCEPT !.ev = "remove"]
    /\ UNCHANGED <<animVars, pb, sb, ed, fn, sc, rv, ov, tr, bt, db>>

InitForm ==
    /\ InitAnimator
    /\ segments = << >>
    /\ pb = PbIdle
    /\ sb = SbIdle
    /\ ed = EdIdle
    /\ fn = FnIdle
    /\ sc = ScIdle
    /\ rv = RvIdle
    /\ ov = OvIdle
    /\ tr = TrIdle
    /\ bt = BtIdle
    /\ fm = FmIdle
    /\ db = DbIdle

NextForm ==
    \/ FormMount
    \/ \E l \in LocationIds : FormPickFrom(l)
    \/ \E l \in LocationIds : FormPickTo(l)
    \/ \E m \in FormModes : FormPickMode(m)
    \/ FormAdd
    \/ FormCancel
    \/ FormOpen
    \/ \E index \in 1..MaxFormSegs : FormRemove(index)

SpecForm == InitForm /\ [][NextForm]_vars

----------------------------------------------------------------------------
(* RoutesService: create, delete and calculateSegments over the tables of   *)
(* schema.prisma.  Every await of calculateSegments is a step of its own;   *)
(* a route has one call of calculateSegments at a time.                     *)

\* waypoint i (from 0) of a create input
InputWaypoint(i) == [lat |-> 10 * (i + 1), lng |-> 20 * (i + 1)]

\* prisma.route.create with nested waypoints: order is the index in the input
routeCreate(d, k) ==
    [d EXCEPT !.route = @ \cup {d.nextRoute},
              !.waypoint = @ \cup
                  { [id |-> d.nextRow + index, routeId |-> d.nextRoute,
                     order |-> index,
                     latitude |-> InputWaypoint(index).lat,
                     longitude |-> InputWaypoint(index).lng] : index \in 0..(k - 1) },
              !.nextRoute = @ + 1,
              !.nextRow = @ + k]

\* prisma.route.delete: onDelete: Cascade removes the waypoints and segments
routeDelete(d, id) ==
    [d EXCEPT !.route = @ \ {id},
              !.waypoint = { w \in @ : w.routeId # id },
              !.segment = { g \in @ : g.routeId # id }]

\* include: { waypoints: { orderBy: { order: 'asc' } } }
RECURSIVE OrderByOrder(_)
OrderByOrder(rows) ==
    IF rows = {} THEN << >>
    ELSE LET first == CHOOSE w \in rows : \A v \in rows : w.order <= v.order
         IN  <<first>> \o OrderByOrder(rows \ {first})

WaypointsOf(d, id) == OrderByOrder({ w \in d.waypoint : w.routeId = id })

\* the loop of calculateSegments: segments.push for i < waypoints.length - 1
BuildSegments(routeId, waypoints) ==
    [j \in 1..(Len(waypoints) - 1) |->
        [routeId |-> routeId, order |-> j - 1,
         startLat |-> waypoints[j].latitude, startLng |-> waypoints[j].longitude,
         endLat |-> waypoints[j + 1].latitude, endLng |-> waypoints[j + 1].longitude,
         mode |-> "driving"]]

\* a deleteMany that deletes nothing
deleteManyNone(d, routeId) == d

\* prisma.segment.deleteMany({ where: { routeId } })
deleteMany(d, routeId) ==
    [d EXCEPT !.segment = { g \in @ : g.routeId # routeId }]

\* prisma.segment.createMany({ data }): every row gets a new id
createMany(d, data) ==
    [d EXCEPT !.segment = @ \cup
                  { [id |-> d.nextRow + j - 1, routeId |-> data[j].routeId,
                     order |-> data[j].order,
                     startLat |-> data[j].startLat, startLng |-> data[j].startLng,
                     endLat |-> data[j].endLat, endLng |-> data[j].endLng,
                     mode |-> data[j].mode] : j \in 1..Len(data) },
              !.nextRow = @ + Len(data)]

\* a segment row without the id the database gave it
Content(g) == [routeId |-> g.routeId, order |-> g.order,
               startLat |-> g.startLat, startLng |-> g.startLng,
               endLat |-> g.endLat, endLng |-> g.endLng, mode |-> g.mode]

SegmentsOf(d, id) == { g \in d.segment : g.routeId = id }

\* calculateSegments up to its second await: findUnique, the guard, the loop
calculateSegmentsFind(d, c, routeId) ==
    LET waypoints == WaypointsOf(d, routeId)
        call == [NoCalc EXCEPT !.routeId = routeId,
                               !.before = { Content(g) : g \in SegmentsOf(d, routeId) }]
    IN  IF routeId \notin d.route \/ Len(waypoints) < 2
        THEN [d EXCEPT !.calls[c] = [call EXCEPT !.status = "thrown"]]
        ELSE [d EXCEPT !.calls[c] =
                  [call EXCEPT !.status = "found",
                               !.segments = BuildSegments(routeId, waypoints)]]

\* RoutesService.create
DbCreate(k) ==
    /\ db.nextRoute <= MaxRoutes
    /\ db' = [routeCreate(db, k) EXCEPT !.ev = "create"]
    /\ UNCHANGED <<animVars, pb, sb, ed, fn, sc, rv, ov, tr, bt, fm>>

\* RoutesService.delete of a stored route
DbDelete(id) ==
    /\ id \in db.route
    /\ db' = [routeDelete(db, id) EXCEPT !.ev = "delete"]
    /\ UNCHANGED <<animVars, pb, sb, ed, fn, sc, rv, ov, tr, bt, fm>>

\* calculateSegments(routeId) is called
CalcFind(c, routeId) ==
    /\ db.calls[c].status = "unused"
    /\ \A e \in 1..MaxCalls : e < c => db.calls[e].status # "unused"
    /\ \A e \in 1..MaxCalls :
           db.calls[e].status \in {"found", "deleted"} => db.calls[e].routeId # routeId
    /\ db' = [calculateSegmentsFind(db, c, routeId) EXCEPT !.ev = "find"]
    /\ UNCHANGED <<animVars, pb, sb, ed, fn, sc, rv, ov, tr, bt, fm>>

\* await prisma.segment.deleteMany
CalcDeleteMany(c) ==
    /\ db.calls[c].status = "found"
    /\ db' = [deleteMany(db, db.calls[c].routeId)
              EXCEPT !.calls[c].status = "deleted", !.ev = "deleteMany"]
    /\ UNCHANGED <<animVars, pb, sb, ed, fn, sc, rv, ov, tr, bt, fm>>

\* return prisma.segment.createMany: the rows refer to the route, so the
\* insert is refused when the route has been deleted meanwhile
CalcCreateMany(c) ==
    /\ db.calls[c].status = "deleted"
    /\ db' = IF db.calls[c].routeId \in db.route
             THEN [createMany(db, db.calls[c].segments)
                   EXCEPT !.calls[c].status = "returned",
                          !.calls[c].result = Len(db.calls[c].segments),
                          !.ev = "createMany"]
             ELSE [db EXCEPT !.calls[c].status = "thrown", !.ev = "createMany"]
    /\ UNCHANGED <<animVars, pb, sb, ed, fn, sc, rv, ov, tr, bt, fm>>

InitStore ==
    /\ InitAnimator
    /\ segments = << >>
    /\ pb = PbIdle
    /\ sb = SbIdle
    /\ ed = EdIdle
    /\ fn = FnIdle
    /\ sc = ScIdle
    /\ rv = RvIdle
    /\ ov = OvIdle
    /\ tr = TrIdle
    /\ bt = BtIdle
    /\ fm = FmIdle
    /\ db = DbIdle

NextStore ==
    \/ \E k \in 0..MaxWaypoints : DbCreate(k)
    \/ \E id \in 1..MaxRoutes : DbDelete(id)
    \/ \E c \in 1..MaxCalls, routeId \in 1..MaxRoutes : CalcFind(c, routeId)
    \/ \E c \in 1..MaxCalls : CalcDeleteMany(c)
    \/ \E c \in 1..MaxCalls : CalcCreateMany(c)

SpecStore == InitStore /\ [][NextStore]_vars

----------------------------------------------------------------------------
(* calculateDuration and formatDuration on their own *)

\* animateRoute: calculateDuration(distance, seg.mode)
CallCalculateDuration ==
    /\ fn.op = "none"
    /\ fn' = [fn EXCEPT !.op = "calculateDuration",
                        !.out = calculateDuration(fn.distance, fn.mode)]
    /\ UNCHANGED <<animVars, pb, sb, ed, sc, rv, ov, tr, bt, fm, db>>

\* the progress panel: formatDuration(routeProgress.duration)
CallFormatDuration ==
    /\ fn.op = "none"
    /\ fn' = [fn EXCEPT !.op = "formatDuration", !.text = formatDuration(fn.minutes)]
    /\ UNCHANGED <<animVars, pb, sb, ed, sc, rv, ov, tr, bt, fm, db>>

InitFn ==
    /\ InitAnimator
    /\ segments = << >>
    /\ pb = PbIdle
    /\ sb = SbIdle
    /\ ed = EdIdle
    /\ fn \in FnInputs
    /\ sc = ScIdle
    /\ rv = RvIdle
    /\ ov = OvIdle
    /\ tr = TrIdle
    /\ bt = BtIdle
    /\ fm = FmIdle
    /\ db = DbIdle

NextFn ==
    \/ CallCalculateDuration
    \/ CallFormatDuration

SpecFn == InitFn /\ [][NextFn]_vars

----------------------------------------------------------------------------
(* The path builders on their own: a call is made on inputs drawn from      *)
(* Places, Modes and Lookups, and its outcome is recorded in pb.            *)

Call(op, out) ==
    /\ pb.op = "none"
    /\ pb' = [pb EXCEPT !.op = op, !.out = out]
    /\ UNCHANGED <<animVars, sb, ed, fn, sc, rv, ov, tr, bt, fm, db>>

\* animateRoute: await buildPath(seg.from.coordinates, seg.to.coordinates, seg.mode)
CallBuildPath ==
    Call("buildPath", buildPath(pb.from, pb.to, pb.mode, pb.lookup))

\* the second component's animateRoute: await buildPath(...)
CallBuildPathReveal ==
    Call("buildPathReveal", buildPathReveal(pb.from, pb.to, pb.mode, pb.lookup))

\* the second component's effect on segments: Promise.all(segments.map(...))
CallPrecomputePath ==
    Call("precomputePath", precomputePath(pb.from, pb.to, pb.mode, pb.lookup))

\* getGroundRoute(segment.from.coordinates, segment.to.coordinates, segment.mode)
\* of a component that passes the mode on: called for the ground modes only
CallGetGroundRouteEarlier ==
    /\ pb.mode # "flight"
    /\ Call("getGroundRouteEarlier",
            getGroundRouteEarlier(pb.from, pb.to, pb.mode, pb.lookup))

InitPath ==
    /\ InitAnimator
    /\ segments = << >>
    /\ pb \in PbInputs
    /\ sb = SbIdle
    /\ ed = EdIdle
    /\ fn = FnIdle
    /\ sc = ScIdle
    /\ rv = RvIdle
    /\ ov = OvIdle
    /\ tr = TrIdle
    /\ bt = BtIdle
    /\ fm = FmIdle
    /\ db = DbIdle

NextPath ==
    \/ CallBuildPath
    \/ CallBuildPathReveal
    \/ CallPrecomputePath
    \/ CallGetGroundRouteEarlier

SpecPath == InitPath /\ [][NextPath]_vars

----------------------------------------------------------------------------
(* Claims *)

DoneRuns == {t \in RunIds : runs[t].status = "done"}

RECURSIVE SumDistance(_)
SumDistance(segs) ==
    IF segs = << >> THEN 0
    ELSE calculateDistance(Head(segs).from, Head(segs).to) + SumDistance(Tail(segs))

RECURSIVE SumDuration(_)
SumDuration(segs) ==
    IF segs = << >> THEN 0
    ELSE calculateDuration(calculateDistance(Head(segs).from, Head(segs).to), Head(segs).mode)
         + SumDuration(Tail(segs))

\* C1: every run starts its segments in index order 0, 1, 2, ... with no skip
\* and no repeat, a run that signals completion has started each of its n
\* segments exactly once, each finished segment has scheduled exactly one
\* successor, and with a single run the segment shown is the one started last.
C1_SegmentsInOrder ==
    \A t \in RunIds :
        LET r == runs[t] IN
        /\ r.started = [i \in 1..Len(r.started) |-> i - 1]
        /\ Len(r.started) <= Len(r.segs)
        /\ r.status \notin {"unused", "done"} => r.segIndex = Len(r.started) - 1
        /\ r.status = "done" => r.segIndex = Len(r.segs) /\ Len(r.started) = Len(r.segs)
        /\ r.timers = IF r.status = "pause" THEN r.segIndex + 1 ELSE r.segIndex
        /\ (starts = 1 /\ mounted /\ r.started # << >>)
               => currentSegment = r.started[Len(r.started)]

C1_Witness ==
    /\ starts = 1
    /\ runs[1].status = "done"
    /\ runs[1].started = <<0, 1>>
    /\ runs[1].timers = 2

\* C2 (as claimed): right after an explicit stop no frame callback is pending.
C2_NoFrameAfterStop ==
    lastEvent = "stop" => \A t \in RunIds : runs[t].status # "frame"

\* C3 (as claimed): right after an explicit stop no delayed continuation of the
\* animation is pending: no path request in flight, no settle timer, no
\* inter-segment timer.
C3_NoContinuationAfterStop ==
    lastEvent = "stop" => \A t \in RunIds : runs[t].status \notin {"path", "settle", "pause"}

\* C4 (as claimed): after an explicit stop that cancelled the frame of a
\* segment's reveal loop, no vehicle marker is left (vehicleMarkerRef is null)
\* and the live-route source and layers are removed.
C4_StopRemovesTransients ==
    (lastEvent = "stop" /\ animationRef # 0 /\ runs[animationRef].status = "cancelled")
        => /\ vehicleMarkerRef.none
           /\ markersOnMap = 0
           /\ ~source.present
           /\ layers = {}

\* C5 (as claimed): right after the segment list changes no run of the old
\* list is pending any more and the vehicle marker is removed.
C5_SegmentChangeCancels ==
    lastEvent = "segments"
        => /\ \A t \in RunIds : runs[t].status \notin Waiting
           /\ vehicleMarkerRef.none

\* C6 (as claimed): right after the map is torn down (unmount or darkMode
\* change) no frame callback and no timer continuation is pending.
C6_TeardownCancels ==
    lastEvent \in {"dark", "unmount"}
        => \A t \in RunIds : runs[t].status \notin Waiting

\* C7: when a run passes its last segment the animator is idle, no vehicle
\* marker is attached and vehicleMarkerRef is null, the run ended with segment
\* index n, and completion has been signalled exactly once per completed run.
C7_CompletionIdle ==
    /\ completions = Cardinality(DoneRuns)
    /\ lastComplete # 0 => lastComplete \in DoneRuns
    /\ \A t \in DoneRuns : runs[t].segIndex = Len(runs[t].segs)
    /\ lastEvent = "complete"
          => /\ mounted => ~isAnimating
             /\ vehicleMarkerRef = NoMarker
             /\ markersOnMap = 0

C7_Witness ==
    /\ lastEvent = "complete"
    /\ mounted
    /\ runs[lastComplete].started = <<0, 1>>
    /\ completions = 1

\* C8 (as claimed): when the whole route has completed, the live-route source
\* and both of its layers are gone from the map.
C8_OverlayClearedOnComplete ==
    lastEvent = "complete" => ~source.present /\ layers = {}

\* C9 (as claimed): on a loaded map, with no stop, edit or teardown and fair
\* frames, timers and directions responses, a started animation leads to the
\* idle state in which every started run has passed its last segment and
\* signalled completion.
C9_EventuallyIdle ==
    (\E t \in RunIds : runs[t].status \in Waiting)
        ~> (/\ ~isAnimating
            /\ \A t \in RunIds : runs[t].status \in {"unused", "done"}
            /\ completions = starts)

\* C10 (as claimed): a start at segment 0, by the play button or by
\* traceRequested, leaves the accumulated totals at zero until the first path
\* is resolved; and when a run completes, all other runs having completed too,
\* the accumulated distance and duration are the sums over the segments of the
\* completing run.
C10_TotalsOfTheRun ==
    /\ (lastEvent \in {"play", "trace"} /\ runs[starts].status = "path")
          => totalProgressRef = [distance |-> 0, duration |-> 0]
    /\ (/\ lastEvent = "complete"
        /\ \A u \in RunIds \ {lastComplete} : runs[u].status \in {"unused", "done"})
          => /\ totalProgressRef.distance = SumDistance(runs[lastComplete].segs)
             /\ totalProgressRef.duration = SumDuration(runs[lastComplete].segs)

ActiveRuns == {t \in RunIds : runs[t].status \in Waiting}

\* C11 (as claimed): at most one animation run is active in any reachable
\* state: at most one run has a path request in flight, a settle timer, a
\* frame callback or an inter-segment timer pending.
C11_AtMostOneRun ==
    Cardinality(ActiveRuns) <= 1

GroundModes == {"drive", "train", "walk"}

\* longitude and latitude of the points of a path
LngLat(path) == [i \in 1..Len(path) |-> <<path[i][1], path[i][2]>>]

\* C12 (as claimed): for a ground mode, when the directions lookup fails
\* (network error, malformed body, missing or empty route list), buildPath
\* does not throw and returns the two points from and to.
C12_GroundFallback ==
    (/\ pb.op \in {"buildPath", "buildPathReveal"}
     /\ pb.mode \in GroundModes
     /\ pb.lookup.kind \in Failures)
        => /\ ~pb.out.raised
           /\ LngLat(pb.out.result) = <<Deg(pb.from), Deg(pb.to)>>

\* C13 (as claimed): every path buildPath returns has at least two points,
\* whatever the mode and whatever the directions lookup answered.
C13_AtLeastTwoPoints ==
    pb.op = "buildPath" => Len(pb.out.result) >= 2

\* the profile the directions lookup is to be asked with
ExpectedProfile(mode) ==
    CASE mode \in {"drive", "train"} -> "driving"
      [] mode = "walk" -> "walking"
      [] OTHER -> "none"

\* C14 (as claimed): a directions request is made only for a ground mode,
\* with profile driving for drive and train and walking for walk.
C14_ProfileOfRequest ==
    /\ (pb.op # "none" /\ pb.mode = "flight") => pb.out.requests = << >>
    /\ \A i \in 1..Len(pb.out.requests) :
           pb.out.requests[i].profile = ExpectedProfile(pb.mode)

\* C15: for mode flight buildPath returns steps + 1 = 201 points, the first at
\* from and the last at to, both with altitude 0, and consecutive points are
\* one parameter step 1/steps apart: the longitude, which the curve moves
\* linearly in t, advances by (to - from)/steps from each point to the next.
C15_FlightPath ==
    (pb.op = "buildPath" /\ pb.mode = "flight")
        => LET path == pb.out.result IN
           /\ ~pb.out.raised
           /\ Len(path) = steps + 1
           /\ Len(path) = 201
           /\ <<path[1][1], path[1][2]>> = Deg(pb.from)
           /\ <<path[Len(path)][1], path[Len(path)][2]>> = Deg(pb.to)
           /\ path[1][3] = 0
           /\ path[Len(path)][3] = 0
           /\ \A i \in 1..(Len(path) - 1) :
                  (path[i + 1][1] - path[i][1]) * steps = Scale * (pb.to[1] - pb.from[1])
           /\ \A i \in 1..Len(path) : path[i][3] >= 0

C15_Witness ==
    /\ pb.op = "buildPath"
    /\ pb.mode = "flight"
    /\ pb.from = <<3, 4>>
    /\ pb.to = <<60, 80>>
    /\ Len(pb.out.result) = 201
    /\ pb.out.result[101][3] > 0

\* C16: in every sequence of map operations of the animator and of the play
\* button no layer is added without its source and no source is removed
\* while a layer is bound to it; a live-route layer exists on the map only
\* together with the live-route source.
C16_LayersWithinSource ==
    /\ "layerWithoutSource" \notin mapFaults
    /\ "sourceWithLayers" \notin mapFaults
    /\ layers # {} => source.present

\* a run drew two segments (the second one replaced the source of the first)
\* and the play button then cleared the overlay the run had left
C16_Witness ==
    /\ lastEvent = "play"
    /\ starts = 2
    /\ toggles = 0
    /\ runs[1].status = "done"
    /\ runs[1].started = <<0, 1>>
    /\ layers = {}
    /\ ~source.present

\* C17: the animator never adds the live-route source or one of its layers
\* under a name that is in use: an existing source is removed, with its
\* layers, and created again.
C17_NoNameInUse ==
    "nameInUse" \notin mapFaults

\* a run started after a stop found the source of the stopped run, with
\* coordinates in it, and replaced it by an empty one
C17_Witness ==
    /\ lastEvent = "path"
    /\ starts = 2
    /\ toggles = 0
    /\ runs[1].status = "cancelled"
    /\ runs[1].frames >= 1
    /\ runs[2].status = "settle"
    /\ source = [present |-> TRUE, coords |-> 0]
    /\ layers = LiveLayers

\* C18 (as claimed): at most one vehicle marker is attached to the map, and
\* once the animation has ended (no run is waiting for a response, a timer
\* or a frame) no vehicle marker is attached.
C18_NoOrphanedMarker ==
    /\ markersOnMap <= 1
    /\ ActiveRuns = {} => markersOnMap = 0

\* C19 (as claimed): no drawing operation reaches the map before its style is
\* loaded: no addSource is issued before load, and the live-route source,
\* its layers and the vehicle marker exist on a loaded map only.
C19_NoDrawingBeforeLoad ==
    /\ "beforeLoad" \notin mapFaults
    /\ (source.present \/ layers # {} \/ markersOnMap > 0) => mapLoaded

\* a start of the animation with nothing to animate: the segment list is
\* empty, or the map has not been created yet
BareStart ==
    /\ starts' = starts + 1
    /\ Len(segments) = 0 \/ mapRef = NoMap

\* C20: a start of the animation with an empty segment list, or before the
\* map is created, creates no source, no layer and no vehicle marker, leaves
\* no run waiting for a response, a timer or a frame, and raises no error.
C20_SilentNoOp ==
    [][BareStart =>
          /\ source' = source
          /\ layers' = layers
          /\ markersOnMap' = 0
          /\ vehicleMarkerRef' = NoMarker
          /\ runs'[starts'].status = "done"
          /\ runs'[starts'].started = << >>
          /\ ActiveRuns' = ActiveRuns
          /\ mounted' => ~isAnimating'
          /\ uncaught' = uncaught
          /\ mapFaults' = mapFaults]_vars

\* a start before the map was created, on a list with segments, ended at once
C20_Witness ==
    /\ lastEvent = "complete"
    /\ starts = 1
    /\ runs[1].segs # << >>
    /\ runs[1].started = << >>
    /\ runs[1].status = "done"
    /\ mapRef = 0
    /\ ~source.present

\* C21 (as claimed): on a loaded map a path of zero points or of one point
\* raises no error when it is resolved, and the first frame that advances
\* the segment finds it complete and schedules the next segment.
C21_ShortPathCompletes ==
    [][\A t \in RunIds :
          /\ \A resp \in Responses :
                 (/\ PathResponse(t, resp)
                  /\ GroundPathLen(resp) < 2
                  /\ mapLoaded /\ ~mapRemoved)
                     => /\ uncaught' = uncaught
                        /\ runs'[t].status = "settle"
          /\ (/\ FrameAdvance(t)
              /\ runs[t].pathLen < 2
              /\ source.present /\ ~mapRemoved)
                 => /\ uncaught' = uncaught
                    /\ runs'[t].status = "pause"]_vars

\* C22 (as claimed): the results displayed in the search box are never those
\* of a request older than one whose response has already been shown.
C22_NoStaleResults ==
    sb.shown # 0 => sb.shown >= sb.newest

\* C23: the geocoding request is issued at most once per debounce window (one
\* timer is pending at most, one firing per input value set), only for the
\* value the input holds when the window ends, never for a query shorter
\* than 2 characters; a timer firing for such a query clears the results.
C23_Debounced ==
    /\ Cardinality(sb.timers) <= 1
    /\ sb.timers \subseteq {sb.search}
    /\ sb.fired <= sb.windows
    /\ Len(sb.requests) <= sb.fired
    /\ \A i \in 1..Len(sb.requests) :
           /\ sb.requests[i].query = sb.requests[i].search
           /\ Len(sb.requests[i].query) >= 2
    /\ (sb.ev = "fire" /\ Len(sb.search) < 2) => sb.shown = 0

\* two keystrokes within one window led to a single request, for the later value,
\* and a later short query cleared its results
C23_Witness ==
    /\ sb.ev = "fire"
    /\ sb.typed = 3
    /\ sb.windows = 4
    /\ sb.fired = 3
    /\ Len(sb.requests) = 1
    /\ sb.requests[1].query = "abc"
    /\ sb.search = "a"
    /\ sb.shown = 0
    /\ sb.newest = 1

\* the waypoints of n >= 1 segments: from(0), to(0), to(1), ..., to(n-1)
ExpectedWaypoints(segs) ==
    [i \in 1..(Len(segs) + 1) |->
        LET location == IF i = 1 THEN segs[1].from ELSE segs[i - 1].to
        IN  [lat |-> location.coordinates[2], lng |-> location.coordinates[1],
             name |-> location.name]]

C25_Duration ==
    fn.op = "calculateDuration" =>
        LET speed == CASE fn.mode = "flight" -> 800
                       [] fn.mode = "drive" -> 80
                       [] fn.mode = "train" -> 120
                       [] fn.mode = "walk" -> 5
        IN  /\ fn.out * speed = fn.distance * 60 * DurationScale
            /\ fn.out >= 0
            /\ (fn.distance = 800 /\ fn.mode = "flight") => fn.out = 60 * DurationScale

C25_Witness ==
    /\ fn.op = "calculateDuration"
    /\ fn.distance = 800
    /\ fn.mode = "flight"
    /\ fn.out = 60 * DurationScale

\* C26: for a whole number m >= 0 of minutes, formatDuration(m) is the text
\* "<m div 60>h <m mod 60>m": 135 gives "2h 15m", 59 gives "0h 59m", 60 gives
\* "1h 0m".
C26_FormatDuration ==
    (fn.op = "formatDuration" /\ fn.minutes % DurationScale = 0) =>
        LET m == fn.minutes \div DurationScale
        IN  /\ fn.text = ToString(m \div 60) \o "h " \o ToString(m % 60) \o "m"
            /\ m = 135 => fn.text = "2h 15m"
            /\ m = 59 => fn.text = "0h 59m"
            /\ m = 60 => fn.text = "1h 0m"

C26_Witness ==
    /\ fn.op = "formatDuration"
    /\ fn.minutes = 135 * DurationScale
    /\ fn.text = "2h 15m"

\* the markers on the present map, in the order they were placed
MarkersOnMap == SelectSeq(sc.markersRef, LAMBDA m : m.map = sc.gen)

\* the ids of the segment list as they come: from, to, from, to, ...
FlatIds == [k \in 1..(2 * Len(sc.segments)) |->
               IF k % 2 = 1 THEN sc.segments[(k + 1) \div 2].from
               ELSE sc.segments[k \div 2].to]

FirstPos(id) == CHOOSE k \in 1..Len(FlatIds) :
                    /\ FlatIds[k] = id
                    /\ \A j \in 1..(k - 1) : FlatIds[j] # id

\* one marker for each distinct id of the current list, and no other, in the
\* order the ids first appear
OneMarkerPerId ==
    /\ Len(MarkersOnMap) = Cardinality(IdsOf(FlatIds))
    /\ IdsOf([i \in 1..Len(MarkersOnMap) |-> MarkersOnMap[i].id]) = IdsOf(FlatIds)
    /\ \A i, j \in 1..Len(MarkersOnMap) :
           i < j => FirstPos(MarkersOnMap[i].id) < FirstPos(MarkersOnMap[j].id)

\* C27: after updateMapWithSegments has run on a loaded map the static markers
\* are one for each distinct location id of the current segment list and no
\* other; the first has the start colour, the last collected one, when it is
\* not the first, the end colour, every other the default colour.
C27_StaticMarkers ==
    (sc.loaded /\ sc.ran) =>
        /\ OneMarkerPerId
        /\ \A i \in 1..Len(MarkersOnMap) :
               MarkersOnMap[i].color =
                   IF i = 1 THEN StartColor
                   ELSE IF i = Len(MarkersOnMap) THEN EndColor ELSE OtherColor

C27_Witness ==
    /\ sc.loaded
    /\ sc.ran
    /\ sc.ev = "segments"
    /\ Len(sc.segments) = 2
    /\ Len(MarkersOnMap) = 3
    /\ MarkersOnMap[2].color = OtherColor
    /\ sc.changes = 2

\* C27 as stated: the last collected location has the end colour, also when
\* it is the only one
C27_LastIsEnd ==
    (sc.loaded /\ sc.ran /\ Len(MarkersOnMap) > 0) =>
        MarkersOnMap[Len(MarkersOnMap)].color = EndColor

\* C28: during a segment the coordinate list of the live-route source does not
\* get shorter from one frame to the next.
C28_LengthNeverDecreases ==
    [][(RevealFrame \/ RevealFrameSlice) => Len(rv'.data) >= Len(rv.data)]_vars

\* the rest of C28, which the loops keep: the list starts empty, every point
\* of it lies at or before the cursor, and it is the full path only from the
\* frame that reveals the last point on
C28_RevealWithinCursor ==
    /\ rv.frames = 0 => rv.data = << >>
    /\ \A i \in 1..Len(rv.data) :
           rv.data[i] <= (IF rv.variant = "first" THEN rv.frames * (rv.n - 1)
                          ELSE (rv.frames - 1) * rv.unit)
    /\ (rv.data = FullPath(rv) /\ rv.n > 1) =>
           \/ rv.status \in {"pause", "next"}
           \/ rv.variant = "reveal" /\ rv.frames = rv.n

\* C29: a frame of the reveal loop of a segment runs only when the path of
\* that segment has been resolved and, for segment i + 1, when the loops of
\* segments 0..i have each reached the end of their path and the completion
\* delay of each has elapsed; a completion delay elapses only after the loop
\* it follows has reached the end of its path.
C29_RevealInOrder ==
    [][\A t \in RunIds :
           LET r == runs[t]
               i == r.segIndex
           IN  /\ (FrameIdle(t) \/ FrameAdvance(t)) =>
                      /\ r.resolved = i + 1
                      /\ r.timers = i
                      /\ r.started = [j \in 1..(i + 1) |-> j - 1]
               /\ PauseTimer(t) =>
                      /\ r.frames >= 1
                      /\ r.frames * (r.pathLen - 1)
                             >= (r.pathLen - 1) * TotalFrames(r.segs[i + 1].mode)
                      /\ r.timers = i + 1]_vars

C29_Witness ==
    \E t \in RunIds :
        /\ runs[t].status = "frame"
        /\ runs[t].segIndex = 1
        /\ runs[t].frames >= 1
        /\ runs[t].resolved = 2
        /\ runs[t].timers = 1

\* C30: no failure inside the animator escapes as an uncaught exception: a
\* failed or malformed directions response, a frame or a timer that fires
\* after the live-route source or the map has been removed, and an empty path
\* all end in a safe default.
C30_NothingUncaught == uncaught = FALSE

\* C31: pressing the play button while not animating starts a fresh run: the
\* live-route layers and source are gone (no source removed while a layer
\* still uses it), the accumulated totals are zero, the progress readout is
\* cleared, and a new run begins at segment 0 of the current list, wherever a
\* run before it was stopped.
C31_PlayStartsFresh ==
    [][PlayClick =>
           /\ starts' = starts + 1
           /\ runs'[starts'].segs = segments
           /\ runs'[starts'].started = <<0>>
           /\ runs'[starts'].segIndex = 0
           /\ currentSegment' = 0
           /\ isAnimating'
           /\ totalProgressRef' = [distance |-> 0, duration |-> 0]
           /\ routeProgress' = NoProgress
           /\ ~source'.present
           /\ layers' = {}
           /\ mapFaults' = mapFaults]_vars

C31_Witness ==
    /\ lastEvent = "play"
    /\ starts = 2
    /\ runs[1].segIndex = 1
    /\ runs[1].status = "frame"
    /\ runs[2].started = <<0>>
    /\ totalProgressRef = [distance |-> 0, duration |-> 0]
    /\ ~source.present

\* the static markers are those of the current segment list
MarkersOfCurrentList ==
    /\ OneMarkerPerId
    /\ \A i \in 1..Len(MarkersOnMap) :
           MarkersOnMap[i].color =
               IF i = 1 THEN StartColor
               ELSE IF i = Len(MarkersOnMap) THEN EndColor ELSE OtherColor

\* C32: a static draw asked for before the map has loaded is performed when
\* the load completes: once the map has fired load, the markers shown are
\* those of the segment list current at that time.
C32_DeferredDraw ==
    [][(\E styleLoaded \in BOOLEAN : SceneLoad(styleLoaded)) =>
           /\ sc'.ran \/ sc'.segments = << >>
           /\ MarkersOfCurrentList']_vars

\* what the calls do when isStyleLoaded() is true in the load event: the last
\* draw performed is that of the current list, not of a list captured earlier
C32_LatestListWins ==
    [][SceneLoad(TRUE) => MarkersOfCurrentList']_vars

\* C33: in the components that draw route-<i> overlays, the play button and
\* drawAllSegments take away each route-<i> layer before its source: no source
\* is removed while a layer still uses it.
C33_LayersBeforeSources == "sourceWithLayers" \notin ov.faults

\* the rest of C33, which the components keep: the animator that follows adds
\* no source and no layer under a name in use, and no layer without its source
C33_NoNameInUse == ov.faults \subseteq {"sourceWithLayers"}

\* C34: in the component with the completion-notification effect,
\* onTraceComplete is signalled only when a run has finished its last segment:
\* the click that starts a run does not signal completion.
C34_NoSignalAtStart ==
    [][(TraceRouteClick /\ tr.variant = "reveal") => tr'.signals = tr.signals]_vars

\* C35: each click on Trace Route with at least one segment starts exactly one
\* run, at segment 0 of the list of that moment, and leaves traceRequested
\* false; an edit of the segment list and any other render of the page start
\* none.
C35_OneRunPerClick ==
    [][/\ TraceRouteClick =>
              /\ Len(tr'.runs) = Len(tr.runs) + 1
              /\ tr'.runs[Len(tr'.runs)] = [segs |-> tr.n, at |-> 0, done |-> FALSE]
              /\ tr'.traceRequested = 0
       /\ ((\E n \in 0..MaxTraceSegs : TraceEdit(n)) \/ TracePageRender) =>
              /\ Len(tr'.runs) = Len(tr.runs)
              /\ tr'.traceRequested = 0]_vars

C35_Witness ==
    /\ tr.variant = "first"
    /\ tr.ev = "edit"
    /\ tr.clicks = 2
    /\ Len(tr.runs) = 2
    /\ tr.runs[1].done
    /\ ~tr.runs[2].done
    /\ tr.traceRequested = 0

\* C36 (as claimed): whenever the play/pause button is on the map it shows
\* the pause label if isAnimating is true and the play label if isAnimating
\* is false, after any clicks and completions.
C36_LabelFollowsState ==
    bt.present => (bt.label = IF bt.isAnimating THEN PauseLabel ELSE PlayLabel)

\* the branch the button's onclick takes follows isAnimating: the button is
\* recreated whenever isAnimating changes
C36_HandlerFollowsState == bt.present => bt.seen = bt.isAnimating

\* with a non-empty list the pending from is the to of the last segment
FromIsLastTo ==
    Len(fm.segments) > 0 => fm.fromLocation = fm.segments[Len(fm.segments)].to

\* C37: in the route editor, after any adds, removals and cancels, whenever
\* the segment list is non-empty the pending from location is the to of the
\* last segment, so a segment appended to a non-empty list starts where the
\* then-last segment ended; removing segment i deletes exactly that segment
\* and keeps the others in order.
C37_FromFollowsLast ==
    /\ []FromIsLastTo
    /\ [][/\ FormAdd =>
                 /\ Len(fm'.segments) = Len(fm.segments) + 1
                 /\ SubSeq(fm'.segments, 1, Len(fm.segments)) = fm.segments
                 /\ Len(fm.segments) > 0 =>
                        fm'.segments[Len(fm'.segments)].from
                            = fm.segments[Len(fm.segments)].to
          /\ \A index \in 1..MaxFormSegs :
                 FormRemove(index) =>
                     /\ Len(fm'.segments) = Len(fm.segments) - 1
                     /\ \A j \in 1..Len(fm'.segments) :
                            fm'.segments[j] =
                                fm.segments[IF j < index THEN j ELSE j + 1]
          /\ FormCancel => fm'.segments = fm.segments]_vars

\* a middle segment was removed from a list of three, then the form was
\* cancelled
C37_Witness ==
    /\ fm.ev = "cancel"
    /\ Len(fm.segments) = 2
    /\ fm.segments[1].to # fm.segments[2].from
    /\ fm.fromLocation = fm.segments[2].to
    /\ ~fm.isAddingSegment

\* what the segments of a route with the given waypoints are to be: segment
\* i (order i, from 0) goes from waypoint i to waypoint i + 1
ExpectedSegments(routeId, waypoints) ==
    { [routeId |-> routeId, order |-> i,
       startLat |-> waypoints[i + 1].latitude, startLng |-> waypoints[i + 1].longitude,
       endLat |-> waypoints[i + 2].latitude, endLng |-> waypoints[i + 2].longitude,
       mode |-> "driving"] : i \in 0..(Len(waypoints) - 2) }

\* C38: a call of calculateSegments that returns leaves a route of n >= 2
\* waypoints with exactly n - 1 segments, segment i going from waypoint i to
\* waypoint i + 1 in waypoint order; a later call replaces the segments of
\* an earlier one by the same set; a call for a missing route or a route
\* with fewer than 2 waypoints throws and changes no segment.
C38_CalculateSegments ==
    [][\A c \in 1..MaxCalls :
          /\ (CalcCreateMany(c) /\ db'.calls[c].status = "returned") =>
                 LET id == db.calls[c].routeId
                     waypoints == WaypointsOf(db', id)
                     rows == SegmentsOf(db', id)
                 IN  /\ Len(waypoints) >= 2
                     /\ Cardinality(rows) = Len(waypoints) - 1
                     /\ { Content(g) : g \in rows } = ExpectedSegments(id, waypoints)
                     /\ db.calls[c].before # {} =>
                            { Content(g) : g \in rows } = db.calls[c].before
                     /\ db'.calls[c].result = Len(waypoints) - 1
          /\ \A routeId \in 1..MaxRoutes :
                 CalcFind(c, routeId) =>
                     /\ db'.segment = db.segment
                     /\ db'.calls[c].status = "thrown"
                            <=> (routeId \notin db.route
                                 \/ Len(WaypointsOf(db, routeId)) < 2)]_vars

\* a second call on a route of three waypoints has returned: the two rows
\* are new ones with the content of the rows they replaced
C38_Witness ==
    /\ db.ev = "createMany"
    /\ db.calls[1].status = "returned" /\ db.calls[2].status = "returned"
    /\ db.calls[1].routeId = db.calls[2].routeId
    /\ db.calls[2].result = 2
    /\ db.calls[2].before # {}
    /\ Cardinality(SegmentsOf(db, db.calls[2].routeId)) = 2
    /\ db.calls[3].status = "thrown"

\* C39 (as claimed): in every frame of the reveal loop of a path of at least
\* 2 points the cursor satisfies 0 <= floor(interpolationProgress) <=
\* path.length - 2 and its fractional part is in [0, 1); the cursor never
\* decreases.
C39_CursorInRange ==
    [][(RevealFrame /\ rv.n >= 2) =>
           /\ 0 <= rv'.interpolationProgress \div rv.unit
           /\ rv'.interpolationProgress \div rv.unit <= rv.n - 2
           /\ rv'.interpolationProgress % rv.unit \in 0..(rv.unit - 1)
           /\ rv'.interpolationProgress >= rv.interpolationProgress]_vars

\* C39: in every frame of the reveal loop of a path of at least 2 points
\* the cursor does not decrease; in every frame that interpolates a position
\* floor(interpolationProgress) is between 0 and path.length - 2 and the
\* fractional part t is in [0, 1), so both path points the interpolation
\* reads exist; the one frame in which interpolationProgress is at or past
\* path.length - 1 completes the path and interpolates nothing.
C39_CursorInRangeWhileDrawing ==
    [][(RevealFrame /\ rv.n >= 2) =>
           /\ rv'.interpolationProgress >= rv.interpolationProgress
           /\ rv'.currentPathIndex >= rv.currentPathIndex
           /\ rv'.status = "frame" =>
                  /\ rv'.currentPathIndex = rv'.interpolationProgress \div rv.unit
                  /\ rv'.currentPathIndex \in 0..(rv.n - 2)
                  /\ rv'.t \in 0..(rv.unit - 1)
                  /\ rv'.interpolationProgress = rv'.currentPathIndex * rv.unit + rv'.t
           /\ rv'.status # "frame" =>
                  /\ rv'.interpolationProgress >= (rv.n - 1) * rv.unit
                  /\ rv'.currentPathIndex = rv.currentPathIndex
                  /\ rv'.drawnPath = rv.drawnPath]_vars

\* the loop of a path of three points is between its second and third point
C39_Witness ==
    /\ rv.variant = "first"
    /\ rv.n = 3
    /\ rv.status = "frame"
    /\ rv.currentPathIndex = 1
    /\ rv.t > 0
    /\ Len(rv.drawnPath) = rv.frames + 1

\* a duration rounded to the nearest whole minute, halves up (Math.round)
RoundedMinutes(minutes) == (minutes * 2 + DurationScale) \div (2 * DurationScale)

\* C40 (as claimed): for every duration >= 0 in minutes, fractional ones
\* included, the text of formatDuration is "<h>h <m>m" with m between 0 and
\* 59 and h * 60 + m the duration rounded to the nearest minute.
C40_MinutesBelowSixty ==
    fn.op = "formatDuration" =>
        \E h \in 0..(MaxMinutes \div 60 + 1), m \in 0..59 :
            /\ fn.text = ToString(h) \o "h " \o ToString(m) \o "m"
            /\ h * 60 + m = RoundedMinutes(fn.minutes)

\* what formatDuration keeps: the two numbers it prints add up to the
\* duration rounded to the nearest minute, and the minutes are at most 60
C40_PrintedSum ==
    fn.op = "formatDuration" =>
        \E h \in 0..(MaxMinutes \div 60 + 1), m \in 0..60 :
            /\ fn.text = ToString(h) \o "h " \o ToString(m) \o "m"
            /\ h * 60 + m = RoundedMinutes(fn.minutes)

====
